---- MODULE Spec2Model ----
(***************************************************************************)
(* Model of the image acquisition and adaptation pipeline of prompt_any:   *)
(* ImageData (one image's raw bytes, decoded image object and per-provider *)
(* encodings), ImageRegistry (records keyed by path, in insertion order),  *)
(* ImageDownloader (source resolution and fetch), Provider.process_image / *)
(* ImageData.resize_and_encode (the three-tier size adaptation) and the    *)
(* PromptBuilder operations that drive them.                               *)
(*                                                                         *)
(* Conventions.                                                            *)
(*  - A path is a pair <<prefix, rest>>, so that str.startswith(prefix) is *)
(*    a test on the first component.                                       *)
(*  - A byte string is a record [w, h, len]: len is its length in bytes,   *)
(*    (w, h) the pixel size PIL decodes from it; w = 0 marks bytes that    *)
(*    are not a decodable image.                                           *)
(*  - A text string produced by base64 is [data, len]: the bytes it        *)
(*    encodes and its length in characters.                                *)
(*  - Python's None is the empty tuple, a present value v is <<v>>.        *)
(*  - The length of what PIL writes on save is an input of the operation.  *)
(*  - float sqrt in ImageData.resize is taken over the reals.              *)
(***************************************************************************)
EXTENDS Integers, Sequences, FiniteSets, TLC

VARIABLES
    messages,        \* PromptBuilder.messages
    image_registry,  \* ImageRegistry.image_data: records in dict insertion order
    configs,         \* PromptBuilder.configs: provider names in insertion order
    providers,       \* PromptBuilder.providers: the cache filled by get_providers
    image_config,    \* get_image_config() of each provider
    lastOp,          \* the operation called last and its arguments
    ret,             \* how it ended: the value returned or the exception raised
    calls,           \* the downloader.download calls it made and how each ended
    tiers,           \* the adaptation tiers it ran and the encoded length each gave
    prompts,         \* PromptBuilder.prompts: the prompt stored for each provider
    phases           \* the steps of build() the operation ran, in order

vars == <<messages, image_registry, configs, providers, image_config,
          lastOp, ret, calls, tiers, prompts, phases>>

----------------------------------------------------------------------------
(* Bounds *)

MaxW == 3
MaxH == 2
MaxBytes == 4
MaxBudget == 4
MaxMessages == 2

----------------------------------------------------------------------------
(* Values *)

None == <<>>
Some(v) == <<v>>

\* the element of a set of one element: The({e}) is e, worked out once
The(S) == CHOOSE x \in S : TRUE

Paths == { <<"", "a.png">>, <<"http://", "h/b.png">>, <<"s3://", "k/c.png">> }

AllProviderNames == {"openai", "gemini"}

Bytes(w, h, len) == [w |-> w, h |-> h, len |-> len]

\* the lengths of byte strings: the longest and the next shorter one, whose
\* base64 lengths fall on the two sides of MaxBudget
ByteLens == (MaxBytes - 1)..MaxBytes

\* every decodable image within the bounds
Images == { Bytes(w, h, n) : w \in 1..MaxW, h \in 1..MaxH, n \in ByteLens }

\* bytes that PIL cannot identify as an image
Garbage == Bytes(0, 0, 1)

Budgets == {1, MaxBudget}

----------------------------------------------------------------------------
(* Exceptions: the classes and their bases *)

NoExc == ""

ExcBase(cls) ==
    CASE cls = "ImageProcessingError" -> "PromptBuilderError"
      [] cls = "PromptBuilderError"   -> "Exception"
      [] cls = "ImageSourceError"     -> "Exception"
      [] cls = "ImageDownloadError"   -> "Exception"
      [] OTHER                        -> "Exception"

\* isinstance(exc, handler): what an `except handler` clause catches
IsInstance(cls, handler) ==
    \/ cls = handler
    \/ ExcBase(cls) = handler
    \/ ExcBase(ExcBase(cls)) = handler

Returned(type, val) == [exc |-> NoExc, type |-> type, val |-> val]
Raised(cls, msg) == [exc |-> cls, type |-> "exception", val |-> msg]

----------------------------------------------------------------------------
(* base64 *)

\* len(base64.b64encode(b)): four characters for every started group of three bytes
B64Len(n) == 4 * ((n + 2) \div 3)

encode_image(binary_data) == [data |-> binary_data, len |-> B64Len(binary_data.len)]

----------------------------------------------------------------------------
(* ImageData *)

CanDecode(b) == b.w > 0

ImageSize(b) == [w |-> b.w, h |-> b.h]

\* ImageData.__init__ before binary_data is assigned
EmptyImageData(image_path) ==
    [image_path |-> image_path, binary_data |-> None, image_obj |-> None,
     provider_encoded_images |-> << >>]

SetBinaryData_no_open(rec, value) ==
    [exc |-> NoExc, rec |-> [rec EXCEPT !.binary_data = value]]

\* the binary_data setter: [exc, rec]
SetBinaryData(rec, value) ==
    IF value # None /\ ~CanDecode(value[1])
    THEN [exc |-> "ImageProcessingError", rec |-> rec]
    ELSE [exc |-> NoExc,
          rec |-> [rec EXCEPT !.binary_data = value,
                              !.image_obj = IF value # None
                                            THEN Some(ImageSize(value[1]))
                                            ELSE rec.image_obj]]

NewImageData(image_path, binary_data) ==
    SetBinaryData(EmptyImageData(image_path), binary_data)

HasEncoded(rec, provider_name) == provider_name \in DOMAIN rec.provider_encoded_images

\* dict assignment d[k] = v on a function with a finite domain
DictSet(d, k, v) == [x \in (DOMAIN d) \cup {k} |-> IF x = k THEN v ELSE d[x]]

AddProviderEncoded_only(rec, provider_name, encoded_image) ==
    [rec EXCEPT !.provider_encoded_images = DictSet(<< >>, provider_name, encoded_image)]

AddProviderEncoded(rec, provider_name, encoded_image) ==
    [rec EXCEPT !.provider_encoded_images = DictSet(@, provider_name, encoded_image)]

\* ImageData.get_encoded_data_for
get_encoded_data_for_returns_none(rec, provider_name) ==
    IF provider_name \notin DOMAIN rec.provider_encoded_images
    THEN Returned("None", << >>)
    ELSE Returned("str", <<rec.provider_encoded_images[provider_name]>>)

get_encoded_data_for(rec, provider_name) ==
    IF provider_name \notin DOMAIN rec.provider_encoded_images
    THEN Raised("ValueError", <<"Encoded data not found for provider", provider_name>>)
    ELSE Returned("str", <<rec.provider_encoded_images[provider_name]>>)

resample_image_keeps_bytes(rec, rs) ==
    IF rec.binary_data = None
    THEN [exc |-> "UnidentifiedImageError", rec |-> rec, out |-> Garbage]
    ELSE [exc |-> NoExc, rec |-> rec,
          out |-> Bytes(rec.binary_data[1].w, rec.binary_data[1].h, rs)]

\* ImageData.resample_image: re-save at the same pixel size; rs is the
\* length of what PIL writes.  [exc, rec, out]
resample_image(rec, rs) ==
    IF rec.binary_data = None
    THEN [exc |-> "UnidentifiedImageError", rec |-> rec, out |-> Garbage]
    ELSE LET img == rec.binary_data[1]
             output == Bytes(img.w, img.h, rs)
         IN [exc |-> NoExc, rec |-> SetBinaryData(rec, Some(output)).rec, out |-> output]

\* floor of the square root
Isqrt(n) == CHOOSE r \in 0..n : r * r <= n /\ (r + 1) * (r + 1) > n

\* the target size ImageData.resize computes from image_obj.size:
\* scale = sqrt(max_size / width * height), int(width * scale), int(height * scale)
ResizeTarget(size, max_size) ==
    [w |-> Isqrt(size.w * size.h * max_size),
     h |-> Isqrt((size.h * size.h * size.h * max_size) \div size.w)]

\* PIL's round_aspect for the width: the nearer of floor and ceil of
\* y * w / h by |w/h - n/y|, floor on a tie, at least 1
RoundAspectX(size, y) ==
    LET fl == (y * size.w) \div size.h
        ce == IF (y * size.w) % size.h = 0 THEN fl ELSE fl + 1
        keyfl == y * size.w - fl * size.h
        keyce == ce * size.h - y * size.w
        n == IF keyfl <= keyce THEN fl ELSE ce
    IN IF n < 1 THEN 1 ELSE n

\* PIL's round_aspect for the height: the nearer of floor and ceil of
\* x * h / w by |w/h - x/n| (0 for n = 0), floor on a tie, at least 1
RoundAspectY(size, x) ==
    LET fl == (x * size.h) \div size.w
        ce == IF (x * size.h) % size.w = 0 THEN fl ELSE fl + 1
        keyfl == x * size.h - fl * size.w
        keyce == ce * size.w - x * size.h
        n == IF fl = 0 THEN fl
             ELSE IF keyfl * ce <= keyce * fl THEN fl ELSE ce
    IN IF n < 1 THEN 1 ELSE n

\* Image.thumbnail(target): never enlarges, keeps the aspect ratio; divides
\* by the target height.  [exc, size]
Thumbnail(size, target) ==
    IF target.w >= size.w /\ target.h >= size.h
    THEN [exc |-> NoExc, size |-> size]
    ELSE IF target.h = 0
    THEN [exc |-> "ZeroDivisionError", size |-> size]
    ELSE IF target.w * size.h >= target.h * size.w
    THEN [exc |-> NoExc, size |-> [w |-> RoundAspectX(size, target.h), h |-> target.h]]
    ELSE [exc |-> NoExc, size |-> [w |-> target.w, h |-> RoundAspectY(size, target.w)]]

resize_no_assign(rec, max_size, rz) ==
    IF rec.image_obj = None
    THEN [exc |-> "AttributeError", rec |-> rec, out |-> Garbage]
    ELSE LET size == rec.image_obj[1]
             th == Thumbnail(size, ResizeTarget(size, max_size))
             resized_bytes == Bytes(th.size.w, th.size.h, rz)
         IN IF th.exc # NoExc
            THEN [exc |-> th.exc, rec |-> rec, out |-> Garbage]
            ELSE [exc |-> NoExc, rec |-> [rec EXCEPT !.image_obj = Some(th.size)],
                  out |-> resized_bytes]

\* ImageData.resize: shrink image_obj in place to the target, save it and
\* assign the result; rz is the length of what PIL writes.  [exc, rec, out]
resize(rec, max_size, rz) ==
    IF rec.image_obj = None
    THEN [exc |-> "AttributeError", rec |-> rec, out |-> Garbage]
    ELSE LET size == rec.image_obj[1]
             th == Thumbnail(size, ResizeTarget(size, max_size))
             resized_bytes == Bytes(th.size.w, th.size.h, rz)
         IN IF th.exc # NoExc
            THEN [exc |-> th.exc, rec |-> rec, out |-> Garbage]
            ELSE [exc |-> NoExc, rec |-> SetBinaryData(rec, Some(resized_bytes)).rec,
                  out |-> resized_bytes]

\* ImageData.encode_as_base64: [rec, out] with out = None when there are no bytes
encode_as_base64(rec, provider_name) ==
    IF rec.binary_data # None
    THEN LET encoded_data == encode_image(rec.binary_data[1])
         IN [rec |-> AddProviderEncoded(rec, provider_name, encoded_data),
             out |-> Some(encoded_data)]
    ELSE [rec |-> rec, out |-> None]

TooLarge(out, max_size) == out # None /\ out[1].len > max_size

\* one entry of the adaptation log: the tier that ran and the length of the
\* encoding it gave, NoLen when it gave none
NoLen == -1

Tier(tier, len) == [tier |-> tier, len |-> len]

OutLen(out) == IF out = None THEN NoLen ELSE out[1].len

resize_and_encode_no_second_check(rec, max_size, provider_name, rs, rz) ==
    LET t1 == encode_as_base64(rec, provider_name)
        log1 == << Tier("direct", OutLen(t1.out)) >>
    IN
    IF ~TooLarge(t1.out, max_size)
    THEN [exc |-> NoExc, rec |-> t1.rec, tiers |-> log1]
    ELSE
    LET r2 == resample_image(t1.rec, rs)
        t2 == encode_as_base64(r2.rec, provider_name)
        log2 == Append(log1, Tier("resample", OutLen(t2.out)))
        r3 == resize(t2.rec, max_size, rz)
        t3 == encode_as_base64(r3.rec, provider_name)
    IN
    IF r3.exc # NoExc
    THEN [exc |-> r3.exc, rec |-> r3.rec, tiers |-> Append(log2, Tier("resize", NoLen))]
    ELSE [exc |-> NoExc, rec |-> t3.rec,
          tiers |-> Append(log2, Tier("resize", OutLen(t3.out)))]

\* ImageData.resize_and_encode.  [exc, rec, tiers]
resize_and_encode(rec, max_size, provider_name, rs, rz) ==
    LET t1 == encode_as_base64(rec, provider_name)
        log1 == << Tier("direct", OutLen(t1.out)) >>
    IN
    IF ~TooLarge(t1.out, max_size)
    THEN [exc |-> NoExc, rec |-> t1.rec, tiers |-> log1]
    ELSE
    LET r2 == resample_image(t1.rec, rs)
        t2 == encode_as_base64(r2.rec, provider_name)
        log2 == Append(log1, Tier("resample", OutLen(t2.out)))
    IN
    IF ~TooLarge(t2.out, max_size)
    THEN [exc |-> NoExc, rec |-> t2.rec, tiers |-> log2]
    ELSE
    LET r3 == resize(t2.rec, max_size, rz)
        t3 == encode_as_base64(r3.rec, provider_name)
    IN
    IF r3.exc # NoExc
    THEN [exc |-> r3.exc, rec |-> r3.rec, tiers |-> Append(log2, Tier("resize", NoLen))]
    ELSE [exc |-> NoExc, rec |-> t3.rec,
          tiers |-> Append(log2, Tier("resize", OutLen(t3.out)))]

----------------------------------------------------------------------------
(* Provider *)

ImageConfig(requires_base64, max_size, needs_download) ==
    [requires_base64 |-> requires_base64, max_size |-> max_size,
     needs_download |-> needs_download]

process_image_always_encodes(rec, name, cfg, rs, rz) ==
    resize_and_encode(rec, cfg.max_size, name, rs, rz)

\* Provider.process_image for the provider called name with configuration cfg.
\* [exc, rec, tiers]
process_image(rec, name, cfg, rs, rz) ==
    IF ~cfg.requires_base64
    THEN [exc |-> NoExc, rec |-> rec, tiers |-> << >>]
    ELSE IF rec.binary_data = None
    THEN [exc |-> "TypeError", rec |-> rec, tiers |-> << Tier("direct", NoLen) >>]
    ELSE
    LET e1 == encode_image(rec.binary_data[1])
        log1 == << Tier("direct", e1.len) >>
    IN
    IF e1.len <= cfg.max_size
    THEN [exc |-> NoExc, rec |-> AddProviderEncoded(rec, name, e1), tiers |-> log1]
    ELSE
    LET r2 == resample_image(rec, rs)
        e2 == encode_image(r2.out)
        log2 == Append(log1, Tier("resample", e2.len))
    IN
    IF e2.len <= cfg.max_size
    THEN [exc |-> NoExc, rec |-> AddProviderEncoded(r2.rec, name, e2), tiers |-> log2]
    ELSE
    LET r3 == resize(r2.rec, cfg.max_size, rz)
        e3 == encode_image(r3.out)
    IN
    IF r3.exc # NoExc
    THEN [exc |-> r3.exc, rec |-> r3.rec, tiers |-> Append(log2, Tier("resize", NoLen))]
    ELSE [exc |-> NoExc, rec |-> AddProviderEncoded(r3.rec, name, e3),
          tiers |-> Append(log2, Tier("resize", e3.len))]

----------------------------------------------------------------------------
(* ImageRegistry: a sequence of records with distinct paths *)

HasImage(reg, image_path) == \E i \in 1..Len(reg) : reg[i].image_path = image_path

IndexOf(reg, image_path) == CHOOSE i \in 1..Len(reg) : reg[i].image_path = image_path

\* self.image_data[path] = rec: a present key keeps its position
RegistryPut(reg, rec) ==
    IF HasImage(reg, rec.image_path)
    THEN [reg EXCEPT ![IndexOf(reg, rec.image_path)] = rec]
    ELSE Append(reg, rec)

add_image_path(reg, image_path) == RegistryPut(reg, EmptyImageData(image_path))

add_image_data(reg, rec) == RegistryPut(reg, rec)

get_image_data(reg, image_path) ==
    IF HasImage(reg, image_path) THEN Some(reg[IndexOf(reg, image_path)]) ELSE None

PathsOf(reg) == { reg[i].image_path : i \in 1..Len(reg) }

----------------------------------------------------------------------------
(* Image sources and ImageDownloader *)

StartsWith(path, prefix) == path[1] = prefix

LocalFileSource_can_handle_any(path) == TRUE

LocalFileSource_can_handle(path) ==
    ~(StartsWith(path, "http://") \/ StartsWith(path, "https://") \/ StartsWith(path, "s3://"))

HttpSource_can_handle(path) ==
    StartsWith(path, "http://") \/ StartsWith(path, "https://")

\* the source the downloader's tests register: DummyImageSource.can_handle
DummyImageSource_can_handle(path) == StartsWith(path, "dummy://")

\* S3Source.can_handle: the object-storage source accepts the s3:// scheme
S3Source_can_handle(path) == StartsWith(path, "s3://")

can_handle(source, path) ==
    IF source = "LocalFileSource" THEN LocalFileSource_can_handle(path)
    ELSE IF source = "DummyImageSource" THEN DummyImageSource_can_handle(path)
    ELSE IF source = "S3Source" THEN S3Source_can_handle(path)
    ELSE HttpSource_can_handle(path)

\* ImageDownloader.__init__ without an S3 client: the registered sources in order
Sources == << [protocol |-> "file",  source |-> "LocalFileSource"],
              [protocol |-> "http",  source |-> "HttpSource"],
              [protocol |-> "https", source |-> "HttpSource"] >>

\* ImageDownloader._get_source_for_path: the first source that can handle the path
\* the loop of _get_source_for_path over self.sources.values(): None when it
\* ends without a match
SourceForPath_last_match(sources, path) ==
    LET matching == { i \in 1..Len(sources) : can_handle(sources[i].source, path) }
    IN IF matching = {} THEN None
       ELSE Some(sources[CHOOSE i \in matching : \A j \in matching : i >= j].source)

SourceForPath(sources, path) ==
    LET matching == { i \in 1..Len(sources) : can_handle(sources[i].source, path) }
    IN IF matching = {} THEN None
       ELSE Some(sources[CHOOSE i \in matching : \A j \in matching : i <= j].source)

get_source_for_path(path) == SourceForPath(Sources, path)

\* what a source's get_image can do: fail with a cause, or hand back bytes
Causes == {"HTTP 404", "timeout"}

FetchBytes == { Bytes(MaxW, 1, MaxBytes), Garbage }

FetchOutcomes ==
    { [ok |-> FALSE, cause |-> c, data |-> Garbage] : c \in Causes }
    \cup { [ok |-> TRUE, cause |-> "", data |-> b] : b \in FetchBytes }

\* the ImageSourceError message of LocalFileSource.get_image / HttpSource.get_image
get_image_error(source, path, cause) ==
    IF source = "LocalFileSource"
    THEN <<"Failed to read", path, cause>>
    ELSE <<"Failed to download", path, cause>>

\* ImageDownloader.download; o is what the source does for this path.  [exc, msg, rec]
download(path, o) ==
    LET source == get_source_for_path(path) IN
    IF source = None
    THEN [exc |-> "ImageProcessingError",
          msg |-> <<"No registered image source can handle path", path, "">>,
          rec |-> EmptyImageData(path)]
    ELSE IF ~o.ok
    THEN [exc |-> "ImageSourceError", msg |-> get_image_error(source[1], path, o.cause),
          rec |-> EmptyImageData(path)]
    ELSE LET image_data == NewImageData(path, Some(o.data)) IN
         [exc |-> image_data.exc, msg |-> <<"opening image", path, "">>,
          rec |-> image_data.rec]

----------------------------------------------------------------------------
(* PromptBuilder *)

ImageMessage(image_path) == [role |-> "user", type |-> "image", data |-> image_path]

\* PromptBuilder.get_providers: fills the cache from configs when it is empty
get_providers(provs, cfgs) == IF Len(provs) = 0 THEN cfgs ELSE provs

\* PromptBuilder._should_download_images over the providers get_providers returns
should_download_images(provs) ==
    \E i \in 1..Len(provs) : image_config[provs[i]].needs_download

\* one entry of the downloader's call log: the path asked for and how
\* download ended
Call(path, d) == [path |-> path, exc |-> d.exc, msg |-> d.msg]

\* one turn of the loop of download_image_data, for the record image_data
\* of the list taken at its start; acc is [reg, errors, calls, exc]
DownloadOne_reraise(acc, image_data, env) ==
    IF image_data.binary_data # None
    THEN acc
    ELSE LET d == download(image_data.image_path, env[image_data.image_path])
             called == Append(acc.calls, Call(image_data.image_path, d))
         IN IF d.exc = NoExc
            THEN [acc EXCEPT !.reg = add_image_data(acc.reg, d.rec), !.calls = called]
            ELSE [acc EXCEPT !.calls = called, !.exc = d.exc]

DownloadOne_no_skip(acc, image_data, env) ==
    LET d == download(image_data.image_path, env[image_data.image_path])
        called == Append(acc.calls, Call(image_data.image_path, d))
    IN IF d.exc = NoExc
       THEN [acc EXCEPT !.reg = add_image_data(acc.reg, d.rec), !.calls = called]
       ELSE IF IsInstance(d.exc, "ImageSourceError")
       THEN [acc EXCEPT !.errors = Append(acc.errors,
                                          [path |-> image_data.image_path, error |-> d.msg]),
                        !.calls = called]
       ELSE [acc EXCEPT !.calls = called, !.exc = d.exc]

DownloadOne(acc, image_data, env) ==
    IF image_data.binary_data # None
    THEN acc
    ELSE LET d == download(image_data.image_path, env[image_data.image_path])
             called == Append(acc.calls, Call(image_data.image_path, d))
         IN IF d.exc = NoExc
            THEN [acc EXCEPT !.reg = add_image_data(acc.reg, d.rec), !.calls = called]
            ELSE IF IsInstance(d.exc, "ImageSourceError")
            THEN [acc EXCEPT !.errors = Append(acc.errors,
                                               [path |-> image_data.image_path, error |-> d.msg]),
                             !.calls = called]
            ELSE [acc EXCEPT !.calls = called, !.exc = d.exc]

\* the loop of download_image_data over the records listed at its start; an
\* exception that is not caught ends it
RECURSIVE DownloadLoop(_, _, _)
DownloadLoop(todo, acc, env) ==
    IF todo = << >> \/ acc.exc # NoExc
    THEN acc
    ELSE DownloadLoop(Tail(todo), DownloadOne(acc, Head(todo), env), env)

\* "Failed to download images:" followed by one "- path: error" line per failure
ErrorMessage_first_only(errors) ==
    [head |-> "Failed to download images:", lines |-> <<errors[1]>>]

ErrorMessage(errors) == [head |-> "Failed to download images:", lines |-> errors]

\* how download_image_data ends after its loop
DownloadResult_always_raise(r, raise_on_error) ==
    IF r.exc # NoExc
    THEN Raised(r.exc, << >>)
    ELSE IF r.errors # << >>
    THEN Raised("ImageDownloadError", <<ErrorMessage(r.errors)>>)
    ELSE Returned("ImageRegistry", << >>)

DownloadResult(r, raise_on_error) ==
    IF r.exc # NoExc
    THEN Raised(r.exc, << >>)
    ELSE IF r.errors # << >> /\ raise_on_error
    THEN Raised("ImageDownloadError", <<ErrorMessage(r.errors)>>)
    ELSE Returned("ImageRegistry", << >>)

\* the loop of encode_image_data: every record, for every provider, in order;
\* an exception of process_image ends it.  [reg, exc, tiers]
RECURSIVE EncodeLoop(_, _, _, _, _, _, _)
EncodeLoop(reg, provs, i, j, last, rs, rz) ==
    IF i > Len(reg)
    THEN [reg |-> reg, exc |-> NoExc, tiers |-> last]
    ELSE IF j > Len(provs)
    THEN EncodeLoop(reg, provs, i + 1, 1, last, rs, rz)
    ELSE The({ IF r.exc # NoExc
               THEN [reg |-> [reg EXCEPT ![i] = r.rec], exc |-> r.exc, tiers |-> r.tiers]
               ELSE EncodeLoop([reg EXCEPT ![i] = r.rec], provs, i, j + 1, r.tiers, rs, rz) :
               r \in { process_image(reg[i], provs[j], image_config[provs[j]], rs, rz) } })

Op(name, args) == [name |-> name, args |-> args]

NoneReturned == Returned("None", << >>)

----------------------------------------------------------------------------
(* Operations of PromptBuilder *)

\* PromptBuilder.add_image_message
AddImageMessage(image_path) ==
    /\ Len(messages) < MaxMessages
    /\ messages' = Append(messages, ImageMessage(image_path))
    /\ image_registry' = add_image_path(image_registry, image_path)
    /\ lastOp' = Op("add_image_message", <<image_path>>)
    /\ phases' = << >>
    /\ ret' = NoneReturned
    /\ calls' = << >>
    /\ tiers' = << >>
    /\ UNCHANGED <<prompts, configs, providers, image_config>>

SeqContains(seq, x) == \E i \in 1..Len(seq) : seq[i] = x

SeqRemove(seq, x) == SelectSeq(seq, LAMBDA y : y # x)

\* PromptBuilder.add_config
AddConfig(provider_name) ==
    /\ lastOp' = Op("add_config", <<provider_name>>)
    /\ phases' = << >>
    /\ calls' = << >>
    /\ tiers' = << >>
    /\ IF provider_name \notin AllProviderNames
       THEN /\ ret' = Raised("ValueError", <<"Provider is not supported", provider_name>>)
            /\ UNCHANGED <<configs, providers>>
       ELSE /\ configs' = IF SeqContains(configs, provider_name) THEN configs
                          ELSE Append(configs, provider_name)
            /\ providers' = << >>
            /\ ret' = NoneReturned
    /\ UNCHANGED <<prompts, messages, image_registry, image_config>>

\* PromptBuilder.remove_config
RemoveConfig(provider_name) ==
    /\ lastOp' = Op("remove_config", <<provider_name>>)
    /\ phases' = << >>
    /\ calls' = << >>
    /\ tiers' = << >>
    /\ ret' = NoneReturned
    /\ IF SeqContains(configs, provider_name)
       THEN /\ configs' = SeqRemove(configs, provider_name)
            /\ providers' = << >>
       ELSE UNCHANGED <<configs, providers>>
    /\ UNCHANGED <<prompts, messages, image_registry, image_config>>

\* PromptBuilder.download_image_data(raise_on_error); env is what each
\* path's source does when asked
DownloadImageData(raise_on_error, env) ==
    /\ lastOp' = Op("download_image_data", <<raise_on_error>>)
    /\ phases' = << >>
    /\ tiers' = << >>
    /\ UNCHANGED <<prompts, messages, configs, image_config>>
    /\ IF Len(image_registry) = 0
       THEN /\ ret' = Returned("ImageRegistry", << >>)
            /\ calls' = << >>
            /\ UNCHANGED <<image_registry, providers>>
       ELSE /\ providers' = get_providers(providers, configs)
            /\ IF ~should_download_images(providers')
               THEN /\ ret' = Returned("ImageRegistry", << >>)
                    /\ calls' = << >>
                    /\ UNCHANGED image_registry
               ELSE LET r == DownloadLoop(image_registry,
                                          [reg |-> image_registry, errors |-> << >>,
                                           calls |-> << >>, exc |-> NoExc],
                                          env)
                    IN /\ image_registry' = r.reg
                       /\ calls' = r.calls
                       /\ ret' = DownloadResult(r, raise_on_error)

\* PromptBuilder.encode_image_data; rs and rz are the lengths PIL writes
\* when it resamples and when it resizes
EncodeImageData(rs, rz) ==
    /\ lastOp' = Op("encode_image_data", << >>)
    /\ phases' = << >>
    /\ calls' = << >>
    /\ UNCHANGED <<prompts, messages, configs, image_config>>
    /\ IF Len(image_registry) = 0
       THEN /\ ret' = Returned("ImageRegistry", << >>)
            /\ tiers' = << >>
            /\ UNCHANGED <<image_registry, providers>>
       ELSE /\ providers' = get_providers(providers, configs)
            /\ LET r == EncodeLoop(image_registry, providers', 1, 1, << >>, rs, rz)
               IN /\ image_registry' = r.reg
                  /\ tiers' = r.tiers
                  /\ ret' = IF r.exc # NoExc THEN Raised(r.exc, << >>)
                            ELSE Returned("ImageRegistry", << >>)

----------------------------------------------------------------------------
(* The builder: one PromptBuilder driven through its operations *)

\* the providers of the builder encode to base64, as ProviderOpenAI and
\* ProviderGemini do; whether one needs the images downloaded is left open
BuilderImageConfigs == { ImageConfig(TRUE, MaxBudget, d) : d \in BOOLEAN }

\* the registered paths whose record has no raw bytes
PendingPaths(reg) ==
    { reg[i].image_path : i \in { j \in 1..Len(reg) : reg[j].binary_data = None } }

Init ==
    /\ messages = << >>
    /\ prompts = << >>
    /\ phases = << >>
    /\ image_registry = << >>
    /\ configs = << >>
    /\ providers = << >>
    /\ image_config \in [AllProviderNames -> BuilderImageConfigs]
    /\ lastOp = Op("__init__", << >>)
    /\ ret = NoneReturned
    /\ calls = << >>
    /\ tiers = << >>

Next ==
    \/ \E image_path \in Paths : AddImageMessage(image_path)
    \/ \E provider_name \in AllProviderNames \cup {"blah"} : AddConfig(provider_name)
    \/ \E provider_name \in AllProviderNames : RemoveConfig(provider_name)
    \/ \E raise_on_error \in BOOLEAN,
          env \in [PathsOf(image_registry) -> FetchOutcomes] :
          DownloadImageData(raise_on_error, env)

Spec == Init /\ [][Next]_vars

----------------------------------------------------------------------------
(* Operations on one record of the registry *)

\* Provider.process_image(image_data) by the provider called name
ProcessImage(i, name, rs, rz) ==
    LET r == process_image(image_registry[i], name, image_config[name], rs, rz) IN
    /\ image_registry' = [image_registry EXCEPT ![i] = r.rec]
    /\ lastOp' = Op("process_image", <<image_registry[i].image_path, name>>)
    /\ phases' = << >>
    /\ ret' = IF r.exc # NoExc THEN Raised(r.exc, << >>)
              ELSE Returned("ImageData", <<image_registry[i].image_path>>)
    /\ tiers' = r.tiers
    /\ calls' = << >>
    /\ UNCHANGED <<prompts, messages, configs, providers, image_config>>

\* ImageData.resize_and_encode(max_size, provider_name)
ResizeAndEncode(i, max_size, name, rs, rz) ==
    LET r == resize_and_encode(image_registry[i], max_size, name, rs, rz) IN
    /\ image_registry' = [image_registry EXCEPT ![i] = r.rec]
    /\ lastOp' = Op("resize_and_encode", <<image_registry[i].image_path, name, max_size>>)
    /\ phases' = << >>
    /\ ret' = IF r.exc # NoExc THEN Raised(r.exc, << >>)
              ELSE Returned("ImageData", <<image_registry[i].image_path>>)
    /\ tiers' = r.tiers
    /\ calls' = << >>
    /\ UNCHANGED <<prompts, messages, configs, providers, image_config>>

\* ImageData.get_encoded_data_for(provider_name)
GetEncodedDataFor(i, name) ==
    /\ lastOp' = Op("get_encoded_data_for", <<image_registry[i].image_path, name>>)
    /\ phases' = << >>
    /\ ret' = get_encoded_data_for(image_registry[i], name)
    /\ tiers' = << >>
    /\ calls' = << >>
    /\ UNCHANGED <<prompts, messages, image_registry, configs, providers, image_config>>

AddProviderEncodedImage_creates(image_path, name, encoded_image) ==
    LET reg == IF HasImage(image_registry, image_path) THEN image_registry
               ELSE add_image_path(image_registry, image_path)
    IN /\ lastOp' = Op("add_provider_encoded_image", <<image_path, name, encoded_image>>)
       /\ phases' = << >>
       /\ tiers' = << >>
       /\ calls' = << >>
       /\ image_registry' = [reg EXCEPT ![IndexOf(reg, image_path)] =
                                 AddProviderEncoded(@, name, encoded_image)]
       /\ ret' = NoneReturned
       /\ UNCHANGED <<prompts, messages, configs, providers, image_config>>

\* ImageRegistry.add_provider_encoded_image(image_path, provider_name, encoded_image)
AddProviderEncodedImage(image_path, name, encoded_image) ==
    /\ lastOp' = Op("add_provider_encoded_image", <<image_path, name, encoded_image>>)
    /\ phases' = << >>
    /\ tiers' = << >>
    /\ calls' = << >>
    /\ IF HasImage(image_registry, image_path)
       THEN /\ image_registry' =
                 [image_registry EXCEPT ![IndexOf(image_registry, image_path)] =
                      AddProviderEncoded(@, name, encoded_image)]
            /\ ret' = NoneReturned
       ELSE /\ ret' = Raised("KeyError", <<image_path>>)
            /\ UNCHANGED image_registry
    /\ UNCHANGED <<prompts, messages, configs, providers, image_config>>

\* assignment to ImageData.binary_data
AssignBinaryData(i, value) ==
    LET r == SetBinaryData(image_registry[i], value) IN
    /\ image_registry' = [image_registry EXCEPT ![i] = r.rec]
    /\ lastOp' = Op("binary_data", <<image_registry[i].image_path, value>>)
    /\ phases' = << >>
    /\ ret' = IF r.exc # NoExc THEN Raised(r.exc, << >>) ELSE NoneReturned
    /\ tiers' = << >>
    /\ calls' = << >>
    /\ UNCHANGED <<prompts, messages, configs, providers, image_config>>

----------------------------------------------------------------------------
(* The record: one ImageData in a registry, adapted for two providers *)

AdaptImageConfigs ==
    { ImageConfig(TRUE, m, TRUE) : m \in Budgets } \cup { ImageConfig(FALSE, MaxBudget, TRUE) }

LocalPath == <<"", "a.png">>

\* a string that is not the encoding of any image of the record
OtherString == encode_image(Garbage)

InitAdapt ==
    /\ messages = << >>
    /\ prompts = << >>
    /\ phases = << >>
    /\ \E value \in {None} \cup { Some(b) : b \in Images } :
          image_registry = << NewImageData(LocalPath, value).rec >>
    /\ configs = << >>
    /\ providers = << >>
    /\ image_config \in [AllProviderNames -> AdaptImageConfigs]
    /\ lastOp = Op("__init__", << >>)
    /\ ret = NoneReturned
    /\ calls = << >>
    /\ tiers = << >>

NextAdapt ==
    \/ \E i \in 1..Len(image_registry), name \in AllProviderNames,
          rs \in ByteLens, rz \in ByteLens : ProcessImage(i, name, rs, rz)
    \/ \E i \in 1..Len(image_registry), name \in AllProviderNames, max_size \in Budgets,
          rs \in ByteLens, rz \in ByteLens : ResizeAndEncode(i, max_size, name, rs, rz)
    \/ \E i \in 1..Len(image_registry), name \in AllProviderNames : GetEncodedDataFor(i, name)
    \/ \E image_path \in Paths, name \in AllProviderNames :
          AddProviderEncodedImage(image_path, name, OtherString)

SpecAdapt == InitAdapt /\ [][NextAdapt]_vars

----------------------------------------------------------------------------
(* What the last operation was about *)

RecordAt(reg, image_path) == reg[IndexOf(reg, image_path)]

\* the record the last record-level operation worked on
LastRec == RecordAt(image_registry, lastOp.args[1])

IsAdaptOp == lastOp.name \in {"process_image", "resize_and_encode"}

\* the provider the last adaptation was for, and its budget
AdaptProvider == lastOp.args[2]

AdaptBudget ==
    IF lastOp.name = "process_image"
    THEN image_config[lastOp.args[2]].max_size
    ELSE lastOp.args[3]

\* the last adaptation was one that encodes
AdaptEncodes ==
    \/ lastOp.name = "resize_and_encode"
    \/ image_config[lastOp.args[2]].requires_base64

TierNames == <<"direct", "resample", "resize">>

----------------------------------------------------------------------------
(* Size adaptation *)

\* C1: after an adaptation of a record that has raw bytes for a provider with
\* budget S, either the call failed with an image-too-large error, or it
\* ended normally and the string stored for the provider is at most S long.
C1_BudgetGuarantee ==
    (IsAdaptOp /\ AdaptEncodes /\ LastRec.binary_data # None) =>
        \/ ret.exc = "ImageTooLargeError"
        \/ /\ ret.exc = NoExc
           /\ HasEncoded(LastRec, AdaptProvider)
           /\ LastRec.provider_encoded_images[AdaptProvider].len <= AdaptBudget

\* C7: the tiers run in the order direct, resample, resize; a tier runs only
\* after the one before it gave an encoding over the budget, and the
\* escalation goes on while the encoding is over the budget; when the direct
\* encoding is over the budget and the resampled one fits, the resize tier
\* is not run and the string stored is the encoding of the resampled bytes.
C7_TierEscalation ==
    IsAdaptOp =>
        LET S == AdaptBudget
            n == Len(tiers)
        IN /\ n <= 3
           /\ \A k \in 1..n : tiers[k].tier = TierNames[k]
           /\ \A k \in 2..n : tiers[k - 1].len > S
           /\ (n >= 1 /\ tiers[n].len > S) => n = 3
           /\ (n >= 2 /\ tiers[2].len # NoLen /\ tiers[2].len <= S) =>
                 /\ n = 2
                 /\ ret.exc = NoExc
                 /\ HasEncoded(LastRec, AdaptProvider)
                 /\ LastRec.provider_encoded_images[AdaptProvider]
                        = encode_image(LastRec.binary_data[1])
                 /\ LastRec.provider_encoded_images[AdaptProvider].len = tiers[2].len

C7_Witness ==
    /\ IsAdaptOp
    /\ Len(tiers) = 2
    /\ tiers[1].len > AdaptBudget
    /\ tiers[2].len <= AdaptBudget
    /\ ret.exc = NoExc

\* the last operation was process_image by a provider that does not want base64
IsPassthrough(op) ==
    /\ op.name = "process_image"
    /\ ~image_config[op.args[2]].requires_base64

\* C8 as stated: process_image by a provider with requires_base64 = False
\* leaves the registry as it was, runs no tier, and hands back the raw bytes
\* object of the record.
C8_PassthroughReturnsBytes ==
    [][IsPassthrough(lastOp') =>
          /\ image_registry' = image_registry
          /\ tiers' = << >>
          /\ ret'.exc = NoExc
          /\ ret'.type = "bytes"
          /\ ret'.val = <<RecordAt(image_registry, lastOp'.args[1]).binary_data>>]_vars

\* C8 as amended: process_image by a provider with requires_base64 = False
\* leaves the registry as it was (raw bytes, image object and every stored
\* encoding), runs no tier, and hands back the record it was given.
C8_PassthroughReturnsRecord ==
    [][IsPassthrough(lastOp') =>
          /\ image_registry' = image_registry
          /\ tiers' = << >>
          /\ ret'.exc = NoExc
          /\ ret'.type = "ImageData"
          /\ ret'.val = <<lastOp'.args[1]>>]_vars

C8_Witness ==
    /\ IsPassthrough(lastOp)
    /\ LastRec.binary_data # None
    /\ ~HasEncoded(LastRec, AdaptProvider)
    /\ ret.exc = NoExc

\* the operations that store an encoding for the provider args[2] on the
\* record args[1]
StoringOps == {"process_image", "resize_and_encode", "add_provider_encoded_image"}

\* provider p has an entry on the record of path q in registry reg
HasEntry(reg, q, p) == HasImage(reg, q) /\ HasEncoded(RecordAt(reg, q), p)

\* C9: a provider key appears on a record only in a step that is an encode
\* for that provider on that record and that ended normally.
C9_KeyOnlyAfterSuccessfulEncode ==
    [][\A q \in Paths, p \in AllProviderNames :
          (~HasEntry(image_registry, q, p) /\ HasEntry(image_registry', q, p)) =>
              /\ lastOp'.name \in StoringOps
              /\ lastOp'.args[1] = q
              /\ lastOp'.args[2] = p
              /\ ret'.exc = NoExc]_vars

\* C10: reading the encoding of a provider changes nothing; it fails
\* with ValueError when the record has no entry for the provider and
\* otherwise returns the string of the entry, which is the string the last
\* store under that key put there.
C10_GetEncodedDataFor ==
    [][/\ lastOp'.name = "get_encoded_data_for" =>
             LET rec == RecordAt(image_registry, lastOp'.args[1])
                 p == lastOp'.args[2]
             IN /\ image_registry' = image_registry
                /\ IF ~HasEncoded(rec, p)
                   THEN ret'.exc = "ValueError"
                   ELSE /\ ret'.exc = NoExc
                        /\ ret'.type = "str"
                        /\ ret'.val = <<rec.provider_encoded_images[p]>>
       /\ (lastOp'.name = "add_provider_encoded_image" /\ ret'.exc = NoExc) =>
             RecordAt(image_registry', lastOp'.args[1])
                 .provider_encoded_images[lastOp'.args[2]] = lastOp'.args[3]]_vars

C10_Witness ==
    /\ lastOp.name = "get_encoded_data_for"
    /\ ret.exc = "ValueError"
    /\ DOMAIN LastRec.provider_encoded_images # {}

----------------------------------------------------------------------------
(* Batch download *)

IsDownload(op) == op.name = "download_image_data"

CalledPaths(log) == { log[k].path : k \in 1..Len(log) }

FailedCalls(log) == { k \in 1..Len(log) : log[k].exc # NoExc }

\* C2: a fetch failure never leaves download_image_data as it is, and when
\* the call raises the aggregated error, or returns after a download was
\* due, the downloader has been called for every path that was pending.
C2_BatchNotAborted ==
    [][IsDownload(lastOp') =>
          /\ ret'.exc # "ImageSourceError"
          /\ (\/ ret'.exc = "ImageDownloadError"
              \/ /\ ret'.exc = NoExc
                 /\ Len(image_registry) > 0
                 /\ should_download_images(providers'))
             => PendingPaths(image_registry) \subseteq CalledPaths(calls')]_vars

C2_Witness ==
    /\ IsDownload(lastOp)
    /\ ret.exc = "ImageDownloadError"
    /\ Len(calls) >= 2
    /\ calls[1].exc = "ImageSourceError"
    /\ calls[Len(calls)].exc = NoExc

\* C3: when the aggregated error is raised, its message has exactly one
\* line for each call that failed, with that path and that call's error, no
\* line for a path whose call succeeded, and the registry holds a record
\* with raw bytes for every path whose call succeeded.
C3_AggregationComplete ==
    (IsDownload(lastOp) /\ ret.exc = "ImageDownloadError") =>
        LET lines == ret.val[1].lines
            failed == FailedCalls(calls)
        IN /\ Len(lines) = Cardinality(failed)
           /\ \A k \in failed :
                 \E l \in 1..Len(lines) :
                    lines[l] = [path |-> calls[k].path, error |-> calls[k].msg]
           /\ \A l \in 1..Len(lines) : \E k \in failed : lines[l].path = calls[k].path
           /\ \A k \in (1..Len(calls)) \ failed :
                 /\ HasImage(image_registry, calls[k].path)
                 /\ RecordAt(image_registry, calls[k].path).binary_data # None

C3_Witness ==
    /\ IsDownload(lastOp)
    /\ ret.exc = "ImageDownloadError"
    /\ Len(ret.val[1].lines) = 2

\* C4: a download makes no downloader call for a record that already has
\* raw bytes, and exactly one for each pending path it fetches; called
\* again when every record has raw bytes, it makes no call at all.
C4_IdempotentFetch ==
    [][IsDownload(lastOp') =>
          \A i \in 1..Len(image_registry) :
             LET q == image_registry[i].image_path
                 n == Cardinality({ k \in 1..Len(calls') : calls'[k].path = q })
             IN /\ image_registry[i].binary_data # None => n = 0
                /\ (/\ image_registry[i].binary_data = None
                    /\ RecordAt(image_registry', q).binary_data # None) => n = 1]_vars

C4_Witness ==
    /\ IsDownload(lastOp)
    /\ Len(image_registry) > 0
    /\ should_download_images(providers)
    /\ \A i \in 1..Len(image_registry) : image_registry[i].binary_data # None
    /\ calls = << >>
    /\ ret.exc = NoExc

\* C5: download_image_data ends either normally or with the aggregated
\* error, whatever error a single image gives, the error of a path that no
\* registered source can handle included.
C5_PerImageErrorsAggregated ==
    IsDownload(lastOp) => ret.exc \in {NoExc, "ImageDownloadError"}

----------------------------------------------------------------------------
(* The record alone: construction, assignment of bytes, resample, resize *)

\* ImageData.get_dimensions
get_dimensions(rec) ==
    IF rec.image_obj = None
    THEN Raised("AttributeError", << >>)
    ELSE Returned("tuple", rec.image_obj)

\* ImageData(image_path, binary_data=value): the object built is handed back
Construct(image_path, value) ==
    LET r == NewImageData(image_path, value) IN
    /\ lastOp' = Op("ImageData", <<image_path, value>>)
    /\ phases' = << >>
    /\ ret' = IF r.exc # NoExc THEN Raised(r.exc, << >>)
              ELSE Returned("ImageData", <<r.rec>>)
    /\ tiers' = << >>
    /\ calls' = << >>
    /\ UNCHANGED <<prompts, messages, image_registry, configs, providers, image_config>>

\* ImageData.resample_image()
ResampleImage(i, rs) ==
    LET r == resample_image(image_registry[i], rs) IN
    /\ image_registry' = [image_registry EXCEPT ![i] = r.rec]
    /\ lastOp' = Op("resample_image", <<image_registry[i].image_path>>)
    /\ phases' = << >>
    /\ ret' = IF r.exc # NoExc THEN Raised(r.exc, << >>) ELSE Returned("bytes", <<r.out>>)
    /\ tiers' = << >>
    /\ calls' = << >>
    /\ UNCHANGED <<prompts, messages, configs, providers, image_config>>

\* ImageData.resize(max_size)
Resize(i, max_size, rz) ==
    LET r == resize(image_registry[i], max_size, rz) IN
    /\ image_registry' = [image_registry EXCEPT ![i] = r.rec]
    /\ lastOp' = Op("resize", <<image_registry[i].image_path, max_size>>)
    /\ phases' = << >>
    /\ ret' = IF r.exc # NoExc THEN Raised(r.exc, << >>) ELSE Returned("bytes", <<r.out>>)
    /\ tiers' = << >>
    /\ calls' = << >>
    /\ UNCHANGED <<prompts, messages, configs, providers, image_config>>

\* ImageData.get_dimensions()
GetDimensions(i) ==
    /\ lastOp' = Op("get_dimensions", <<image_registry[i].image_path>>)
    /\ phases' = << >>
    /\ ret' = get_dimensions(image_registry[i])
    /\ tiers' = << >>
    /\ calls' = << >>
    /\ UNCHANGED <<prompts, messages, image_registry, configs, providers, image_config>>

\* what can be assigned to binary_data
AssignValues == {None, Some(Garbage)} \cup { Some(b) : b \in Images }

InitRecord ==
    /\ messages = << >>
    /\ prompts = << >>
    /\ phases = << >>
    /\ \E value \in {None} \cup { Some(b) : b \in Images } :
          image_registry = << NewImageData(LocalPath, value).rec >>
    /\ configs = << >>
    /\ providers = << >>
    /\ image_config = [name \in AllProviderNames |-> ImageConfig(TRUE, MaxBudget, TRUE)]
    /\ lastOp = Op("__init__", << >>)
    /\ ret = NoneReturned
    /\ calls = << >>
    /\ tiers = << >>

NextRecord ==
    \/ \E value \in AssignValues : Construct(LocalPath, value)
    \/ \E i \in 1..Len(image_registry), value \in AssignValues : AssignBinaryData(i, value)
    \/ \E i \in 1..Len(image_registry), rs \in ByteLens : ResampleImage(i, rs)
    \/ \E i \in 1..Len(image_registry), max_size \in Budgets, rz \in ByteLens :
          Resize(i, max_size, rz)
    \/ \E i \in 1..Len(image_registry) : GetDimensions(i)

SpecRecord == InitRecord /\ [][NextRecord]_vars

\* the value the last construction or assignment was given is bytes that
\* Image.open rejects
AssignsUndecodable(op) ==
    /\ op.name \in {"ImageData", "binary_data"}
    /\ op.args[2] # None
    /\ ~CanDecode(op.args[2][1])

\* C11: constructing a record with, or assigning to a record, bytes that are
\* not a decodable image fails at once with ImageProcessingError, and the
\* failed assignment leaves the record (raw bytes, decoded image and all)
\* as it was.
C11_DecodeFailsAtAssignment ==
    [][AssignsUndecodable(lastOp') =>
          /\ ret'.exc = "ImageProcessingError"
          /\ image_registry' = image_registry]_vars

C11_Witness ==
    /\ lastOp.name = "binary_data"
    /\ AssignsUndecodable(lastOp)
    /\ ret.exc = "ImageProcessingError"
    /\ LastRec.binary_data # None
    /\ LastRec.image_obj = Some(ImageSize(LastRec.binary_data[1]))

\* C12: in every state a record has a decoded image (its dimensions are
\* defined) exactly when it has raw bytes and they are a decodable image.
C12_DimensionsIffValidBytes ==
    \A i \in 1..Len(image_registry) :
       LET rec == image_registry[i]
       IN (rec.image_obj # None) <=>
             (rec.binary_data # None /\ CanDecode(rec.binary_data[1]))

----------------------------------------------------------------------------
(* Registry *)

\* C13: add_image_message registers its path by adding an empty record at
\* the end of the registry when the path is absent, and leaves the registry
\* as it was when the path is present, so that a record that has raw bytes
\* or encodings keeps them and is not pending again.
C13_RegisterPathOnlyIfAbsent ==
    [][lastOp'.name = "add_image_message" =>
          LET q == lastOp'.args[1]
          IN IF HasImage(image_registry, q)
             THEN image_registry' = image_registry
             ELSE image_registry' = Append(image_registry, EmptyImageData(q))]_vars

\* C14: add_provider_encoded_image for a path that is not registered fails
\* with KeyError and creates no record: the registry, and so its set of
\* paths and its count, is as it was.
C14_AddEncodedUnknownPathFails ==
    [][(/\ lastOp'.name = "add_provider_encoded_image"
        /\ ~HasImage(image_registry, lastOp'.args[1])) =>
          /\ ret'.exc = "KeyError"
          /\ PathsOf(image_registry') = PathsOf(image_registry)
          /\ Len(image_registry') = Len(image_registry)
          /\ image_registry' = image_registry]_vars

C14_Witness ==
    /\ lastOp.name = "add_provider_encoded_image"
    /\ ~HasImage(image_registry, lastOp.args[1])
    /\ ret.exc = "KeyError"
    /\ Len(image_registry) = 1

----------------------------------------------------------------------------
(* Source resolution: ImageDownloader._get_source_for_path over what
   __init__ and register_source leave in self.sources *)

MaxRegistrations == 2

SourceKinds == {"LocalFileSource", "HttpSource", "DummyImageSource"}

Protocols == {"file", "http", "dummy"}

\* ImageDownloader.register_source: self.sources[protocol] = source; a key
\* that is present keeps its place, a new key goes last
register_source(sources, protocol, source) ==
    IF \E i \in 1..Len(sources) : sources[i].protocol = protocol
    THEN [i \in 1..Len(sources) |->
             IF sources[i].protocol = protocol
             THEN [protocol |-> protocol, source |-> source]
             ELSE sources[i]]
    ELSE Append(sources, [protocol |-> protocol, source |-> source])

\* self.sources after __init__ and at most n calls of register_source
RECURSIVE SourceTables(_)
SourceTables(n) ==
    IF n = 0 THEN {Sources}
    ELSE LET before == SourceTables(n - 1)
         IN before \cup { register_source(t, p, k) :
                             t \in before, p \in Protocols, k \in SourceKinds }

ResolvePaths == Paths \cup { <<"https://", "h/d.png">>, <<"dummy://", "image">> }

\* ImageDownloader._get_source_for_path(path) on a downloader whose
\* self.sources is sources
GetSourceForPath(sources, path) ==
    LET r == SourceForPath(sources, path) IN
    /\ lastOp' = Op("_get_source_for_path", <<sources, path>>)
    /\ phases' = << >>
    /\ ret' = IF r = None
              THEN Raised("ImageProcessingError",
                          <<"No registered image source can handle path", path>>)
              ELSE Returned("ImageSource", r)
    /\ tiers' = << >>
    /\ calls' = << >>
    /\ UNCHANGED <<prompts, messages, image_registry, configs, providers, image_config>>

\* ImageDownloader.download_async: the same steps as download, awaiting
\* source.get_image_async.  [exc, msg, rec]
download_async(path, o) ==
    LET source == get_source_for_path(path) IN
    IF source = None
    THEN [exc |-> "ImageProcessingError",
          msg |-> <<"No registered image source can handle path", path, "">>,
          rec |-> EmptyImageData(path)]
    ELSE IF ~o.ok
    THEN [exc |-> "ImageSourceError", msg |-> get_image_error(source[1], path, o.cause),
          rec |-> EmptyImageData(path)]
    ELSE LET image_data == NewImageData(path, Some(o.data)) IN
         [exc |-> image_data.exc, msg |-> <<"opening image", path, "">>,
          rec |-> image_data.rec]

\* ImageDownloader.download(path) on a downloader as __init__ leaves it
Download(path, o) ==
    LET d == download(path, o) IN
    /\ lastOp' = Op("download", <<path, o>>)
    /\ phases' = << >>
    /\ ret' = IF d.exc # NoExc THEN Raised(d.exc, d.msg) ELSE Returned("ImageData", <<d.rec>>)
    /\ tiers' = << >>
    /\ calls' = << >>
    /\ UNCHANGED <<prompts, messages, image_registry, configs, providers, image_config>>

\* ImageDownloader.download_async(path)
DownloadAsync(path, o) ==
    LET d == download_async(path, o) IN
    /\ lastOp' = Op("download_async", <<path, o>>)
    /\ phases' = << >>
    /\ ret' = IF d.exc # NoExc THEN Raised(d.exc, d.msg) ELSE Returned("ImageData", <<d.rec>>)
    /\ tiers' = << >>
    /\ calls' = << >>
    /\ UNCHANGED <<prompts, messages, image_registry, configs, providers, image_config>>

\* what requests.get / aiohttp's get does: raise, or give a response with a
\* status and a body
HttpStatuses == {200, 204, 206, 301, 404, 500}

HttpExceptions == {"Timeout", "ConnectionError"}

HttpResponses ==
    { [raises |-> e, status |-> 0, content |-> Garbage] : e \in HttpExceptions }
    \cup { [raises |-> "", status |-> st, content |-> b] :
              st \in HttpStatuses, b \in FetchBytes }

\* HttpSource.get_image: the ImageSourceError raised for a status other
\* than 200 is caught by the except clause and wrapped like any exception
HttpSource_get_image(url, r) ==
    IF r.raises # ""
    THEN Raised("ImageSourceError", <<"Failed to download", url, r.raises>>)
    ELSE IF r.status # 200
    THEN Raised("ImageSourceError", <<"Failed to download", url, <<"HTTP", r.status, url>>>>)
    ELSE Returned("bytes", <<r.content>>)

\* HttpSource.get_image_async
HttpSource_get_image_async(url, r) ==
    IF r.raises # ""
    THEN Raised("ImageSourceError", <<"Failed to download", url, r.raises>>)
    ELSE IF r.status # 200
    THEN Raised("ImageSourceError", <<"Failed to download", url, <<"HTTP", r.status, url>>>>)
    ELSE Returned("bytes", <<r.content>>)

HttpGetImage(url, r) ==
    /\ lastOp' = Op("HttpSource.get_image", <<url, r>>)
    /\ phases' = << >>
    /\ ret' = HttpSource_get_image(url, r)
    /\ tiers' = << >>
    /\ calls' = << >>
    /\ UNCHANGED <<prompts, messages, image_registry, configs, providers, image_config>>

HttpGetImageAsync(url, r) ==
    /\ lastOp' = Op("HttpSource.get_image_async", <<url, r>>)
    /\ phases' = << >>
    /\ ret' = HttpSource_get_image_async(url, r)
    /\ tiers' = << >>
    /\ calls' = << >>
    /\ UNCHANGED <<prompts, messages, image_registry, configs, providers, image_config>>

HttpUrls == { q \in ResolvePaths : HttpSource_can_handle(q) }

\* the sources ImageDownloader.__init__ registers when given an S3 client
BuiltinSources == {"LocalFileSource", "HttpSource", "S3Source"}

\* paths with the schemes the sources look for and with others: another
\* scheme, a scheme in capitals, a URL inside a local path
SchemePaths ==
    ResolvePaths \cup { <<"file://", "a.png">>, <<"HTTP://", "h/b.png">>,
                        <<"ftp://", "h/b.png">>, <<"", "dir/http://x.png">> }

\* source.can_handle(path)
CanHandle(source, path) ==
    /\ lastOp' = Op("can_handle", <<source, path>>)
    /\ phases' = << >>
    /\ ret' = Returned("bool", <<can_handle(source, path)>>)
    /\ tiers' = << >>
    /\ calls' = << >>
    /\ UNCHANGED <<prompts, messages, image_registry, configs, providers, image_config>>

InitDownloader ==
    /\ messages = << >>
    /\ prompts = << >>
    /\ phases = << >>
    /\ image_registry = << >>
    /\ configs = << >>
    /\ providers = << >>
    /\ image_config = [name \in AllProviderNames |-> ImageConfig(TRUE, MaxBudget, TRUE)]
    /\ lastOp = Op("__init__", << >>)
    /\ ret = NoneReturned
    /\ calls = << >>
    /\ tiers = << >>

NextDownloader ==
    \/ \E sources \in SourceTables(MaxRegistrations), path \in ResolvePaths :
          GetSourceForPath(sources, path)
    \/ \E path \in ResolvePaths, o \in FetchOutcomes : Download(path, o)
    \/ \E path \in ResolvePaths, o \in FetchOutcomes : DownloadAsync(path, o)
    \/ \E url \in HttpUrls, r \in HttpResponses : HttpGetImage(url, r)
    \/ \E url \in HttpUrls, r \in HttpResponses : HttpGetImageAsync(url, r)
    \/ \E source \in BuiltinSources, path \in SchemePaths : CanHandle(source, path)

SpecDownloader == InitDownloader /\ [][NextDownloader]_vars

\* the places, in registration order, of the sources that accept the path
Accepting(sources, path) ==
    { i \in 1..Len(sources) : can_handle(sources[i].source, path) }

\* C15: _get_source_for_path returns the source registered first among
\* those whose can_handle accepts the path, so never one that rejects it,
\* and fails with ImageProcessingError naming the path when none accepts it.
C15_FirstRegisteredMatch ==
    lastOp.name = "_get_source_for_path" =>
        LET sources == lastOp.args[1]
            path == lastOp.args[2]
            acc == Accepting(sources, path)
        IN IF acc = {}
           THEN /\ ret.exc = "ImageProcessingError"
                /\ ret.val[2] = path
           ELSE /\ ret.exc = NoExc
                /\ \E i \in acc :
                      /\ ret.val = <<sources[i].source>>
                      /\ \A j \in 1..(i - 1) : j \notin acc
                /\ can_handle(ret.val[1], path)

C15_Witness ==
    /\ lastOp.name = "_get_source_for_path"
    /\ ret.exc = NoExc
    /\ LET sources == lastOp.args[1]
           acc == Accepting(sources, lastOp.args[2])
       IN \E i \in acc, j \in acc :
             /\ i < j
             /\ sources[i].source # sources[j].source
             /\ ret.val = <<sources[i].source>>

----------------------------------------------------------------------------
(* Single-image download and the HTTP source *)

IsSingleDownload(op) == op.name \in {"download", "download_async"}

\* C16: download and download_async end normally or with
\* ImageProcessingError, and when the source chosen for the path fails to
\* fetch they raise ImageProcessingError with the cause in its message.
C16_DownloadRaisesProcessingError ==
    IsSingleDownload(lastOp) =>
        /\ ret.exc \in {NoExc, "ImageProcessingError"}
        /\ (get_source_for_path(lastOp.args[1]) # None /\ ~lastOp.args[2].ok) =>
              /\ ret.exc = "ImageProcessingError"
              /\ \E k \in 1..Len(ret.val) : ret.val[k] = lastOp.args[2].cause

IsHttpGet(op) == op.name \in {"HttpSource.get_image", "HttpSource.get_image_async"}

\* C17: get_image and get_image_async return the body exactly when the
\* request gave a response with a status from 200 to 299; for any other
\* status they raise ImageSourceError with the status in the message, for an
\* exception of the request they raise ImageSourceError, and nothing else
\* is ever raised.
C17_HttpFailureContract ==
    IsHttpGet(lastOp) =>
        LET r == lastOp.args[2]
        IN /\ ret.exc \in {NoExc, "ImageSourceError"}
           /\ (ret.exc = NoExc) <=> (r.raises = "" /\ r.status \in 200..299)
           /\ ret.exc = NoExc => ret.val = <<r.content>>
           /\ (r.raises = "" /\ ret.exc # NoExc) =>
                 \E k \in 1..Len(ret.val) :
                    ret.val[k] = <<"HTTP", r.status, lastOp.args[1]>>

----------------------------------------------------------------------------
(* The asynchronous batch download *)

\* PromptBuilder.download_image_data as a function of the builder's state:
\* [reg, providers, calls, ret]
download_image_data(reg, provs, cfgs, raise_on_error, env) ==
    IF Len(reg) = 0
    THEN [reg |-> reg, providers |-> provs, calls |-> << >>,
          ret |-> Returned("ImageRegistry", << >>)]
    ELSE LET provs1 == get_providers(provs, cfgs) IN
         IF ~should_download_images(provs1)
         THEN [reg |-> reg, providers |-> provs1, calls |-> << >>,
               ret |-> Returned("ImageRegistry", << >>)]
         ELSE LET r == DownloadLoop(reg, [reg |-> reg, errors |-> << >>,
                                          calls |-> << >>, exc |-> NoExc], env)
              IN [reg |-> r.reg, providers |-> provs1, calls |-> r.calls,
                  ret |-> DownloadResult(r, raise_on_error)]

\* the loop of download_image_data_async: it calls download_async on the
\* class, ImageDownloader.download_async(image_data.image_path), which
\* raises TypeError for the missing argument at the first record
AsyncLoop(todo, env) ==
    IF todo = << >>
    THEN [exc |-> NoExc, calls |-> << >>]
    ELSE [exc |-> "TypeError", calls |-> << >>]

\* PromptBuilder.download_image_data_async; env is what each path's source
\* would do
DownloadImageDataAsync(env) ==
    /\ lastOp' = Op("download_image_data_async", << >>)
    /\ phases' = << >>
    /\ tiers' = << >>
    /\ UNCHANGED <<prompts, messages, configs, image_config, image_registry>>
    /\ IF Len(image_registry) = 0
       THEN /\ providers' = get_providers(providers, configs)
            /\ IF should_download_images(providers')
               THEN LET r == AsyncLoop(image_registry, env)
                    IN /\ calls' = r.calls
                       /\ ret' = IF r.exc # NoExc THEN Raised(r.exc, << >>)
                                 ELSE Returned("ImageRegistry", << >>)
               ELSE /\ calls' = << >>
                    /\ ret' = Returned("ImageRegistry", << >>)
       ELSE /\ calls' = << >>
            /\ ret' = Returned("ImageRegistry", << >>)
            /\ UNCHANGED providers

\* the paths given to a builder: a local file and a URL
BuildPaths == { LocalPath, <<"http://", "h/b.png">> }

\* what a source does for such a path: the fetch fails, or hands
\* back the bytes of an image
BuildOutcomes == { o \in FetchOutcomes : o.cause # "timeout" /\ (o.ok => CanDecode(o.data)) }

\* ImageHandler.process_image_async with the sources registered; o is what
\* the source does for the path.  Whatever get_image_async or encode_image
\* raises is wrapped.  [exc, msg, out]
process_image_async(sources, path, o) ==
    LET source == SourceForPath(sources, path) IN
    IF source = None
    THEN [exc |-> "ImageProcessingError",
          msg |-> <<"No registered image source can handle path", path, "">>,
          out |-> << >>]
    ELSE IF ~o.ok
    THEN [exc |-> "ImageProcessingError",
          msg |-> <<"Error processing image", path, o.cause>>, out |-> << >>]
    ELSE [exc |-> NoExc, msg |-> << >>, out |-> <<encode_image(o.data)>>]

\* AsyncPromptBuilder.add_image_message as one task of the batch.  wired
\* tells whether the instance has been given default_provider,
\* provider_helper_factory and image_handler, which PromptBuilder.__init__
\* does not set: without them the first statement raises AttributeError.
\* [exc, message]
add_image_message_async(wired, image_path, o) ==
    IF ~wired
    THEN [exc |-> "AttributeError", message |-> None]
    ELSE LET processed_image == process_image_async(Sources, image_path, o) IN
         IF processed_image.exc # NoExc
         THEN [exc |-> processed_image.exc, message |-> None]
         ELSE [exc |-> NoExc,
               message |-> Some([role |-> "user", type |-> "image",
                                 data |-> processed_image.out[1],
                                 source_path |-> image_path])]

\* asyncio.gather(*tasks) without return_exceptions, the tasks finishing in
\* the order given: the first exception is handed to the awaiter at once;
\* the tasks still running are not cancelled and go on when the event loop
\* keeps running (later), and are lost when it is closed.  exc is the
\* exception handed to the awaiter so far.  [messages, exc]
RECURSIVE GatherLoop(_, _, _, _, _, _)
GatherLoop(order, env, wired, later, msgs, exc) ==
    IF order = << >> \/ (exc # NoExc /\ ~later)
    THEN [messages |-> msgs, exc |-> exc]
    ELSE LET t == add_image_message_async(wired, Head(order), env[Head(order)]) IN
         IF t.exc # NoExc
         THEN GatherLoop(Tail(order), env, wired, later, msgs,
                         IF exc = NoExc THEN t.exc ELSE exc)
         ELSE GatherLoop(Tail(order), env, wired, later,
                         Append(msgs, t.message[1]), exc)

SeqToSet(seq) == { seq[k] : k \in 1..Len(seq) }

\* AsyncPromptBuilder.add_image_messages(image_paths); order is the order in
\* which the tasks finish
AddImageMessagesAsync(image_paths, env, order, wired, later) ==
    /\ Len(messages) + Len(image_paths) <= MaxMessages
    /\ SeqToSet(order) = SeqToSet(image_paths)
    /\ Len(order) = Len(image_paths)
    /\ \E g \in {GatherLoop(order, env, wired, later, messages, NoExc)} :
          /\ messages' = g.messages
          /\ ret' = IF g.exc # NoExc THEN Raised(g.exc, << >>) ELSE NoneReturned
    /\ lastOp' = Op("add_image_messages", <<image_paths, env>>)
    /\ phases' = << >>
    /\ calls' = << >>
    /\ tiers' = << >>
    /\ UNCHANGED <<prompts, image_registry, configs, providers, image_config>>

\* the batches: one path, or two different paths, each with a source
AsyncBatches ==
    { <<p>> : p \in BuildPaths } \cup { b \in BuildPaths \X BuildPaths : b[1] # b[2] }

NextAsync ==
    \/ \E image_path \in Paths : AddImageMessage(image_path)
    \/ \E provider_name \in AllProviderNames : AddConfig(provider_name)
    \/ \E raise_on_error \in BOOLEAN,
          env \in [PathsOf(image_registry) -> FetchOutcomes] :
          DownloadImageData(raise_on_error, env)
    \/ \E env \in [PathsOf(image_registry) -> FetchOutcomes] :
          DownloadImageDataAsync(env)
    \/ \E image_paths \in AsyncBatches, order \in AsyncBatches,
          env \in [BuildPaths -> BuildOutcomes], wired \in BOOLEAN, later \in BOOLEAN :
          AddImageMessagesAsync(image_paths, env, order, wired, later)

SpecAsync == Init /\ [][NextAsync]_vars

\* C18: whatever the sources do for the paths, download_image_data_async
\* leaves the registry as download_image_data would from the same state,
\* ends as it would (normally, or with the aggregated error), and has
\* launched a fetch for every path download_image_data would have fetched.
C18_AsyncEquivalentToSync ==
    [][lastOp'.name = "download_image_data_async" =>
          \A env \in [PathsOf(image_registry) -> FetchOutcomes] :
             LET sync == download_image_data(image_registry, providers, configs, TRUE, env)
             IN /\ image_registry' = sync.reg
                /\ ret'.exc = sync.ret.exc
                /\ CalledPaths(sync.calls) \subseteq CalledPaths(calls')]_vars

----------------------------------------------------------------------------
(* needs_download *)

\* C19: when no configured provider has needs_download set,
\* download_image_data calls the downloader for no path and leaves the
\* registry, and so every record without raw bytes, as it was; when one
\* has, it calls the downloader for every path that was pending.
C19_DownloadOnlyWhenNeeded ==
    [][IsDownload(lastOp') =>
          IF ~should_download_images(configs)
          THEN /\ calls' = << >>
               /\ image_registry' = image_registry
          ELSE PendingPaths(image_registry) \subseteq CalledPaths(calls')]_vars

----------------------------------------------------------------------------
(* Encoding for several providers: one fetched record, the providers in the
   order of their configuration *)

\* both providers encode to base64, each with a budget of its own
EncodeImageConfigs == { ImageConfig(TRUE, m, TRUE) : m \in Budgets }

InitEncode ==
    /\ messages = << ImageMessage(LocalPath) >>
    /\ prompts = << >>
    /\ phases = << >>
    /\ \E b \in Images : image_registry = << NewImageData(LocalPath, Some(b)).rec >>
    /\ configs = << >>
    /\ providers = << >>
    /\ image_config \in [AllProviderNames -> EncodeImageConfigs]
    /\ lastOp = Op("__init__", << >>)
    /\ ret = NoneReturned
    /\ calls = << >>
    /\ tiers = << >>

NextEncode ==
    \/ \E provider_name \in AllProviderNames : AddConfig(provider_name)
    \/ \E provider_name \in AllProviderNames : RemoveConfig(provider_name)
    \/ \E rs \in ByteLens, rz \in ByteLens : EncodeImageData(rs, rz)

SpecEncode == InitEncode /\ [][NextEncode]_vars

Reverse(seq) == [i \in 1..Len(seq) |-> seq[Len(seq) + 1 - i]]

\* the strings the providers provs hold in the registry reg
EncodedStrings(reg, provs) ==
    [i \in 1..Len(reg) |->
        [j \in 1..Len(provs) |->
            IF HasEncoded(reg[i], provs[j])
            THEN Some(reg[i].provider_encoded_images[provs[j]])
            ELSE None]]

\* C20: when encode_image_data has adapted the records for two providers
\* with different budgets, each provider holds the string it would hold had
\* the providers been processed in the other order from the same state,
\* with PIL writing the same lengths.
C20_OrderIndependentAdaptation ==
    [][(/\ lastOp'.name = "encode_image_data"
        /\ Len(providers') = 2
        /\ image_config[providers'[1]].max_size # image_config[providers'[2]].max_size) =>
          \A rs \in ByteLens, rz \in ByteLens :
             LET fwd == EncodeLoop(image_registry, providers', 1, 1, << >>, rs, rz)
                 rev == EncodeLoop(image_registry, Reverse(providers'), 1, 1, << >>, rs, rz)
             IN fwd.reg = image_registry' =>
                   /\ rev.exc = fwd.exc
                   /\ EncodedStrings(rev.reg, providers')
                         = EncodedStrings(image_registry', providers')]_vars

----------------------------------------------------------------------------
(* Dimensions against the bytes *)

\* the pixel size an independent Image.open(BytesIO(b)).size gives
DecodeSize(b) == [w |-> b.w, h |-> b.h]

\* C21: whatever constructions, assignments, resamples and resizes a record
\* has gone through, when it has raw bytes that are a decodable image the
\* dimensions it reports are the pixel size those bytes decode to.
C21_DimensionsMatchBytes ==
    \A i \in 1..Len(image_registry) :
       LET rec == image_registry[i]
       IN (rec.binary_data # None /\ CanDecode(rec.binary_data[1])) =>
             get_dimensions(rec) = Returned("tuple", Some(DecodeSize(rec.binary_data[1])))

\* a resize to the smallest budget that left a 1x1 image, as the resize of
\* a 3x2 image does, and whose bytes the record now holds
C21_Witness ==
    /\ lastOp.name = "resize"
    /\ lastOp.args[2] = 1
    /\ ret.exc = NoExc
    /\ LastRec.binary_data # None
    /\ LastRec.image_obj = Some([w |-> 1, h |-> 1])
    /\ ret.val = LastRec.binary_data

----------------------------------------------------------------------------
(* ProviderGemini: the parts of one message *)

MaxContents == 3

\* PromptContent(type, content)
PromptContent(type, data) == [type |-> type, data |-> data]

\* PromptMessage(role, content): content is the list of its PromptContent
PromptMessage(role, content) == [role |-> role, content |-> content]

\* ProviderGemini._format_content_image.  [exc, msg, out]
Gemini_format_content_image(content, reg) ==
    LET image_data == get_image_data(reg, content.data) IN
    IF image_data = None
    THEN [exc |-> "ValueError", msg |-> <<"Image data not found for", content.data>>,
          out |-> << >>]
    ELSE LET encoded_data == get_encoded_data_for(image_data[1], "gemini") IN
         IF encoded_data.exc # NoExc
         THEN [exc |-> encoded_data.exc, msg |-> encoded_data.val, out |-> << >>]
         ELSE [exc |-> NoExc, msg |-> << >>,
               out |-> [inline_data |-> encoded_data.val[1]]]

\* ProviderGemini._format_content_text
Gemini_format_content_text(content) == [text |-> content.data]

\* the loop of ProviderGemini.format_content over message.content from the
\* k-th piece on: [exc, msg, image_parts, text_parts]
RECURSIVE GeminiPartsLoop(_, _, _, _, _)
GeminiPartsLoop(content, k, image_parts, text_parts, reg) ==
    IF k > Len(content)
    THEN [exc |-> NoExc, msg |-> << >>, image_parts |-> image_parts,
          text_parts |-> text_parts]
    ELSE The({ IF f.exc # NoExc
               THEN [exc |-> f.exc, msg |-> f.msg, image_parts |-> image_parts,
                     text_parts |-> text_parts]
               ELSE GeminiPartsLoop(
                        content, k + 1,
                        IF content[k].type = "image"
                        THEN Append(image_parts, f.out) ELSE image_parts,
                        IF content[k].type = "text"
                        THEN Append(text_parts, Gemini_format_content_text(content[k]))
                        ELSE text_parts,
                        reg) :
               f \in { IF content[k].type = "image"
                       THEN Gemini_format_content_image(content[k], reg)
                       ELSE [exc |-> NoExc, msg |-> << >>, out |-> << >>] } })

\* ProviderGemini.format_content(message, all_image_data)
Gemini_format_content(message, reg) ==
    The({ IF l.exc # NoExc
          THEN Raised(l.exc, l.msg)
          ELSE Returned("dict",
                        [role |-> message.role,
                         parts |-> IF Len(l.image_parts) = 1 /\ Len(l.text_parts) = 1
                                   THEN l.image_parts \o l.text_parts
                                   ELSE l.text_parts \o l.image_parts]) :
          l \in { GeminiPartsLoop(message.content, 1, << >>, << >>, reg) } })

FormatContent(k) ==
    /\ lastOp' = Op("format_content", <<messages[k]>>)
    /\ phases' = << >>
    /\ ret' = Gemini_format_content(messages[k], image_registry)
    /\ tiers' = << >>
    /\ calls' = << >>
    /\ UNCHANGED <<prompts, messages, image_registry, configs, providers, image_config>>

\* the pieces a message is made of: two texts, an image the registry has a
\* record for, and one it has none for
Contents ==
    { PromptContent("text", "What's in this image?"), PromptContent("text", "Hello"),
      PromptContent("image", LocalPath), PromptContent("image", <<"http://", "h/b.png">>) }

RECURSIVE ContentLists(_)
ContentLists(n) ==
    IF n = 0 THEN { << >> }
    ELSE LET shorter == ContentLists(n - 1)
         IN shorter \cup { Append(c, x) : c \in shorter, x \in Contents }

\* one message, and a registry whose record for LocalPath has raw bytes and,
\* when encoded, the string stored for gemini
InitGemini ==
    /\ \E content \in ContentLists(MaxContents) :
          messages = << PromptMessage("user", content) >>
    /\ prompts = << >>
    /\ phases = << >>
    /\ \E encoded \in BOOLEAN :
          LET rec == NewImageData(LocalPath, Some(Bytes(1, 1, MaxBytes))).rec
          IN image_registry =
                << IF encoded THEN encode_as_base64(rec, "gemini").rec ELSE rec >>
    /\ configs = << "gemini" >>
    /\ providers = << >>
    /\ image_config = [name \in AllProviderNames |-> ImageConfig(TRUE, MaxBudget, TRUE)]
    /\ lastOp = Op("__init__", << >>)
    /\ ret = NoneReturned
    /\ calls = << >>
    /\ tiers = << >>

NextGemini == \E k \in 1..Len(messages) : FormatContent(k)

SpecGemini == InitGemini /\ [][NextGemini]_vars

IsImagePart(part) == "inline_data" \in DOMAIN part

IsTextPart(part) == "text" \in DOMAIN part

\* C23: in the parts ProviderGemini.format_content returns for a message,
\* every image part comes before every text part, whatever the number and
\* the order of the image and text pieces of the message.
C23_GeminiImagesBeforeText ==
    (lastOp.name = "format_content" /\ ret.exc = NoExc) =>
        LET parts == ret.val.parts
        IN \A i \in 1..Len(parts), j \in 1..Len(parts) :
              (IsImagePart(parts[i]) /\ IsTextPart(parts[j])) => i < j

----------------------------------------------------------------------------
(* build() and get_prompt_for: download, encode, format *)

\* one step of build(): the phase it belongs to, the path and the provider
\* it was for ("" when the step has none) and how it ended
Phase(phase, path, provider, exc) ==
    [phase |-> phase, path |-> path, provider |-> provider, exc |-> exc]

NoPath == <<"", "">>

\* the message add_image_message appends, as PromptMessage with its one
\* image piece
AsPromptMessage(m) == PromptMessage(m.role, << PromptContent(m.type, m.data) >>)

\* ProviderOpenAI._format_content_image.  [exc, msg, out]
OpenAI_format_content_image(content, reg) ==
    LET image_data == get_image_data(reg, content.data) IN
    IF image_data = None
    THEN [exc |-> "AttributeError", msg |-> << >>, out |-> << >>]
    ELSE IF image_config["openai"].requires_base64
            \/ LocalFileSource_can_handle(image_data[1].image_path)
    THEN LET encoded_data == get_encoded_data_for(image_data[1], "openai") IN
         IF encoded_data.exc # NoExc
         THEN [exc |-> encoded_data.exc, msg |-> encoded_data.val, out |-> << >>]
         ELSE [exc |-> NoExc, msg |-> << >>,
               out |-> [type |-> "image_url", url |-> <<"base64", encoded_data.val[1]>>]]
    ELSE [exc |-> NoExc, msg |-> << >>,
          out |-> [type |-> "image_url", url |-> <<"url", content.data>>]]

\* Provider.format_content for ProviderOpenAI from the k-th piece on: the
\* pieces in the order of the message.  [exc, msg, out]
RECURSIVE OpenAI_format_content(_, _, _, _)
OpenAI_format_content(content, k, done, reg) ==
    IF k > Len(content)
    THEN [exc |-> NoExc, msg |-> << >>, out |-> done]
    ELSE The({ IF f.exc # NoExc
               THEN [exc |-> f.exc, msg |-> f.msg, out |-> done]
               ELSE OpenAI_format_content(
                        content, k + 1,
                        IF content[k].type = "image" THEN Append(done, f.out)
                        ELSE IF content[k].type = "text"
                        THEN Append(done, [type |-> "text", text |-> content[k].data])
                        ELSE done,
                        reg) :
               f \in { IF content[k].type = "image"
                       THEN OpenAI_format_content_image(content[k], reg)
                       ELSE [exc |-> NoExc, msg |-> << >>, out |-> << >>] } })

\* format_content of the provider called name for one message.  [exc, msg, out]
format_content(name, message, reg) ==
    IF name = "gemini"
    THEN The({ [exc |-> g.exc, msg |-> IF g.exc # NoExc THEN g.val ELSE << >>,
                out |-> IF g.exc # NoExc THEN << >> ELSE g.val] :
               g \in { Gemini_format_content(message, reg) } })
    ELSE The({ [exc |-> o.exc, msg |-> o.msg,
                out |-> [role |-> message.role, content |-> o.out]] :
               o \in { OpenAI_format_content(message.content, 1, << >>, reg) } })

HasImages(message) ==
    \E k \in 1..Len(message.content) : message.content[k].type = "image"

\* the order in which format_messages formats the messages: as they come
\* for ProviderOpenAI, those with an image first for ProviderGemini
FormatOrder(name, msgs) ==
    IF name = "gemini"
    THEN SelectSeq(msgs, HasImages) \o SelectSeq(msgs, LAMBDA m : ~HasImages(m))
    ELSE msgs

\* the loop of format_messages.  [exc, msg, out]
RECURSIVE format_messages(_, _, _, _)
format_messages(name, todo, done, reg) ==
    IF todo = << >>
    THEN [exc |-> NoExc, msg |-> << >>, out |-> done]
    ELSE The({ IF f.exc # NoExc
               THEN [exc |-> f.exc, msg |-> f.msg, out |-> done]
               ELSE format_messages(name, Tail(todo), Append(done, f.out), reg) :
               f \in { format_content(name, Head(todo), reg) } })

\* format_prompt of the provider called name: the prompt as the value
\* json.dumps is given.  [exc, msg, prompt]
format_prompt(name, msgs, reg) ==
    The({ [exc |-> f.exc, msg |-> f.msg,
           prompt |-> [provider |-> name, messages |-> f.out]] :
          f \in { format_messages(
                      name,
                      FormatOrder(name, [k \in 1..Len(msgs) |-> AsPromptMessage(msgs[k])]),
                      << >>, reg) } })

\* the process_image calls of encode_image_data, in order, from record i
\* and provider j on; the first that fails is the last
RECURSIVE EncodePhases(_, _, _, _, _, _)
EncodePhases(reg, provs, i, j, rs, rz) ==
    IF i > Len(reg)
    THEN << >>
    ELSE IF j > Len(provs)
    THEN EncodePhases(reg, provs, i + 1, 1, rs, rz)
    ELSE The({ IF r.exc # NoExc
               THEN << Phase("encode", reg[i].image_path, provs[j], r.exc) >>
               ELSE << Phase("encode", reg[i].image_path, provs[j], r.exc) >>
                    \o EncodePhases([reg EXCEPT ![i] = r.rec], provs, i, j + 1, rs, rz) :
               r \in { process_image(reg[i], provs[j], image_config[provs[j]], rs, rz) } })

\* the last loop of build(), from provider j on: format the prompt of each
\* provider and store it.  [prompts, exc, msg, phases]
RECURSIVE FormatLoop(_, _, _, _, _, _)
FormatLoop(provs, j, stored, done, msgs, reg) ==
    IF j > Len(provs)
    THEN [prompts |-> stored, exc |-> NoExc, msg |-> << >>, phases |-> done]
    ELSE The({ IF f.exc # NoExc
               THEN [prompts |-> stored, exc |-> f.exc, msg |-> f.msg,
                     phases |-> Append(done, Phase("format", NoPath, provs[j], f.exc))]
               ELSE FormatLoop(provs, j + 1, DictSet(stored, provs[j], f.prompt),
                               Append(done, Phase("format", NoPath, provs[j], f.exc)),
                               msgs, reg) :
               f \in { format_prompt(provs[j], msgs, reg) } })

\* the downloader calls as steps of build()
DownloadPhases(log) ==
    [k \in 1..Len(log) |-> Phase("download", log[k].path, "", log[k].exc)]

build_encode_first(env, rs, rz) ==
    The({
    IF e.exc # NoExc
    THEN [reg |-> e.reg, providers |-> provs, prompts |-> prompts,
          calls |-> << >>, tiers |-> e.tiers, phases |-> ep,
          ret |-> Raised(e.exc, << >>)]
    ELSE
    The({
    IF d.ret.exc # NoExc
    THEN [reg |-> d.reg, providers |-> d.providers, prompts |-> prompts,
          calls |-> d.calls, tiers |-> e.tiers,
          phases |-> ep \o DownloadPhases(d.calls), ret |-> d.ret]
    ELSE
    The({ [reg |-> d.reg, providers |-> provs, prompts |-> f.prompts,
           calls |-> d.calls, tiers |-> e.tiers, phases |-> f.phases,
           ret |-> IF f.exc # NoExc THEN Raised(f.exc, f.msg) ELSE NoneReturned] :
          f \in { FormatLoop(provs, 1, prompts, ep \o DownloadPhases(d.calls),
                             messages, d.reg) } }) :
    d \in { download_image_data(e.reg, provs, configs, TRUE, env) } }) :
    provs \in { get_providers(providers, configs) },
    e \in { EncodeLoop(image_registry, get_providers(providers, configs), 1, 1, << >>, rs, rz) },
    ep \in { EncodePhases(image_registry, get_providers(providers, configs), 1, 1, rs, rz) } })

\* PromptBuilder.build() from the builder's state:
\* [reg, providers, prompts, calls, tiers, phases, ret]
build(env, rs, rz) ==
    The({
    IF d.ret.exc # NoExc
    THEN [reg |-> d.reg, providers |-> d.providers, prompts |-> prompts,
          calls |-> d.calls, tiers |-> << >>, phases |-> DownloadPhases(d.calls),
          ret |-> d.ret]
    ELSE
    The({
    IF e.exc # NoExc
    THEN [reg |-> e.reg, providers |-> get_providers(d.providers, configs),
          prompts |-> prompts, calls |-> d.calls, tiers |-> e.tiers,
          phases |-> DownloadPhases(d.calls) \o ep,
          ret |-> Raised(e.exc, << >>)]
    ELSE
    The({ [reg |-> e.reg, providers |-> get_providers(d.providers, configs),
           prompts |-> f.prompts, calls |-> d.calls, tiers |-> e.tiers,
           phases |-> f.phases,
           ret |-> IF f.exc # NoExc THEN Raised(f.exc, f.msg) ELSE NoneReturned] :
          f \in { FormatLoop(get_providers(d.providers, configs), 1, prompts,
                             DownloadPhases(d.calls) \o ep, messages, e.reg) } }) :
    e \in { EncodeLoop(d.reg, get_providers(d.providers, configs), 1, 1, << >>, rs, rz) },
    ep \in { EncodePhases(d.reg, get_providers(d.providers, configs), 1, 1, rs, rz) } }) :
    d \in { download_image_data(image_registry, providers, configs, TRUE, env) } })

\* PromptBuilder.build()
Build(env, rs, rz) ==
    \E b \in {build(env, rs, rz)} :
    /\ lastOp' = Op("build", << >>)
    /\ phases' = b.phases
    /\ image_registry' = b.reg
    /\ providers' = b.providers
    /\ prompts' = b.prompts
    /\ calls' = b.calls
    /\ tiers' = b.tiers
    /\ ret' = b.ret
    /\ UNCHANGED <<messages, configs, image_config>>

\* what get_prompt_for does once build() is behind it or was not due:
\* self.prompts[provider_name]
PromptOf(stored, provider_name) ==
    IF provider_name \in DOMAIN stored
    THEN Returned("str", <<stored[provider_name]>>)
    ELSE Raised("KeyError", <<provider_name>>)

get_prompt_for_always_builds(provider_name, env, rs, rz) ==
    The({ IF b.ret.exc # NoExc
          THEN b
          ELSE [b EXCEPT !.ret = PromptOf(b.prompts, provider_name)] :
          b \in { build(env, rs, rz) } })

\* PromptBuilder.get_prompt_for(provider_name):
\* [reg, providers, prompts, calls, tiers, phases, ret]
get_prompt_for(provider_name, env, rs, rz) ==
    IF DOMAIN prompts = {}
    THEN The({ IF b.ret.exc # NoExc
               THEN b
               ELSE [b EXCEPT !.ret = PromptOf(b.prompts, provider_name)] :
               b \in { build(env, rs, rz) } })
    ELSE [reg |-> image_registry, providers |-> providers, prompts |-> prompts,
          calls |-> << >>, tiers |-> << >>, phases |-> << >>,
          ret |-> PromptOf(prompts, provider_name)]

\* PromptBuilder.get_prompt_for(provider_name)
GetPromptFor(provider_name, env, rs, rz) ==
    \E g \in {get_prompt_for(provider_name, env, rs, rz)} :
    /\ lastOp' = Op("get_prompt_for", <<provider_name>>)
    /\ phases' = g.phases
    /\ image_registry' = g.reg
    /\ providers' = g.providers
    /\ prompts' = g.prompts
    /\ calls' = g.calls
    /\ tiers' = g.tiers
    /\ ret' = g.ret
    /\ UNCHANGED <<messages, configs, image_config>>

\* the providers encode to base64 and need the images downloaded, as
\* ProviderOpenAI and ProviderGemini do; openai has the large budget, gemini
\* either
BuildImageConfigs ==
    { [name \in AllProviderNames |->
          ImageConfig(TRUE, IF name = "openai" THEN MaxBudget ELSE m, TRUE)] : m \in Budgets }

InitBuild ==
    /\ messages = << >>
    /\ prompts = << >>
    /\ phases = << >>
    /\ image_registry = << >>
    /\ configs = << >>
    /\ providers = << >>
    /\ image_config \in BuildImageConfigs
    /\ lastOp = Op("__init__", << >>)
    /\ ret = NoneReturned
    /\ calls = << >>
    /\ tiers = << >>

NextBuild ==
    \/ \E image_path \in BuildPaths : AddImageMessage(image_path)
    \/ \E provider_name \in AllProviderNames : AddConfig(provider_name)
    \/ \E env \in [PathsOf(image_registry) -> BuildOutcomes],
          rs \in ByteLens, rz \in ByteLens : Build(env, rs, rz)
    \/ \E provider_name \in AllProviderNames,
          env \in [PathsOf(image_registry) -> BuildOutcomes],
          rs \in ByteLens, rz \in ByteLens : GetPromptFor(provider_name, env, rs, rz)

SpecBuild == InitBuild /\ [][NextBuild]_vars

\* C22: once the prompts are built, get_prompt_for runs no step of build()
\* again (no download, no encode, no format_prompt call), leaves the
\* registry, the providers and the stored prompts as they are, and returns
\* the prompt stored for the provider it is asked for.
C22_PromptsBuiltOnce ==
    [][(lastOp'.name = "get_prompt_for" /\ DOMAIN prompts # {}) =>
          /\ phases' = << >>
          /\ calls' = << >>
          /\ tiers' = << >>
          /\ image_registry' = image_registry
          /\ providers' = providers
          /\ prompts' = prompts
          /\ lastOp'.args[1] \in DOMAIN prompts =>
                ret' = Returned("str", <<prompts[lastOp'.args[1]]>>)]_vars

\* a second get_prompt_for("openai") answered from the stored prompts, which
\* hold the encoding of a fetched image
C22_Witness ==
    /\ lastOp.name = "get_prompt_for"
    /\ phases = << >>
    /\ ret.exc = NoExc
    /\ "openai" \in DOMAIN prompts
    /\ ret.val = <<prompts["openai"]>>
    /\ Len(prompts["openai"].messages) > 0
    /\ Len(image_registry) > 0

----------------------------------------------------------------------------
(* The phases of build() *)

PhaseRank(phase) ==
    CASE phase = "download" -> 1
      [] phase = "encode"   -> 2
      [] phase = "format"   -> 3

PhaseIndexes(ph, phase) == { k \in 1..Len(ph) : ph[k].phase = phase }

\* C27: the steps build() runs come in the order download, encode, format;
\* when a record is encoded, the download of every image that was pending
\* has been attempted before; when a prompt is formatted, every record has
\* been encoded for every provider before; and when the download phase
\* raises the aggregated error, no step of the other two phases runs, no
\* prompt is stored and no record gains or changes an encoding.
C27_PhasesOrdered ==
    [][lastOp'.name \in {"build", "get_prompt_for"} =>
          LET ph == phases'
              downloads == PhaseIndexes(ph, "download")
              encodes == PhaseIndexes(ph, "encode")
              formats == PhaseIndexes(ph, "format")
          IN /\ \A a \in 1..Len(ph), b \in 1..Len(ph) :
                   PhaseRank(ph[a].phase) < PhaseRank(ph[b].phase) => a < b
             /\ encodes # {} =>
                   PendingPaths(image_registry) \subseteq { ph[k].path : k \in downloads }
             /\ formats # {} =>
                   \A i \in 1..Len(image_registry'), j \in 1..Len(providers') :
                      \E k \in encodes :
                         /\ ph[k].path = image_registry'[i].image_path
                         /\ ph[k].provider = providers'[j]
                         /\ ph[k].exc = NoExc
             /\ ret'.exc = "ImageDownloadError" =>
                   /\ encodes = {} /\ formats = {}
                   /\ prompts' = prompts
                   /\ \A q \in Paths, p \in AllProviderNames :
                         HasEntry(image_registry', q, p) =>
                            /\ HasEntry(image_registry, q, p)
                            /\ RecordAt(image_registry', q).provider_encoded_images[p]
                                  = RecordAt(image_registry, q).provider_encoded_images[p]]_vars

\* a build() that went through the three phases for two images and two
\* providers
C27_Witness ==
    /\ lastOp.name = "build"
    /\ ret.exc = NoExc
    /\ Len(image_registry) = 2
    /\ Len(providers) = 2
    /\ Cardinality(PhaseIndexes(phases, "download")) = 2
    /\ Cardinality(PhaseIndexes(phases, "encode")) = 4
    /\ Cardinality(PhaseIndexes(phases, "format")) = 2
    /\ DOMAIN prompts = AllProviderNames

----------------------------------------------------------------------------
(* One failure in a batch *)

\* C24: when one image of a batch fails to fetch with an ordinary source
\* error, the batch operation does not end with that failure, and every
\* other image of the batch is fetched and recorded: by
\* add_image_messages of the concurrent builder as a message of the path,
\* by download_image_data_async as the raw bytes of the path's record.
C24_BatchSurvivesOneFailure ==
    [][/\ lastOp'.name = "add_image_messages" =>
             LET image_paths == SeqToSet(lastOp'.args[1])
                 env == lastOp'.args[2]
                 added == { messages'[k].source_path :
                               k \in (Len(messages) + 1)..Len(messages') }
             IN (\E q \in image_paths : ~env[q].ok) =>
                   /\ ret'.exc = NoExc
                   /\ \A q \in image_paths : env[q].ok => q \in added
       /\ (lastOp'.name = "download_image_data_async"
           /\ should_download_images(configs)) =>
             \A env \in [PathsOf(image_registry) -> BuildOutcomes] :
                (\E q \in PendingPaths(image_registry) : ~env[q].ok) =>
                   /\ ret'.exc = NoExc
                   /\ \A q \in PendingPaths(image_registry) :
                         (env[q].ok /\ get_source_for_path(q) # None) =>
                            RecordAt(image_registry', q).binary_data # None]_vars

----------------------------------------------------------------------------
(* The target of the geometric resize *)

\* (int(width * scale), int(height * scale)) for the uniform scale
\* sqrt(max_size / (width * height)), the square root taken over the reals
UniformScaleTarget(size, max_size) ==
    [w |-> Isqrt((size.w * max_size) \div size.h),
     h |-> Isqrt((size.h * max_size) \div size.w)]

\* C25: the target ImageData.resize computes for an image of size
\* (width, height) is (int(width * scale), int(height * scale)) with
\* scale = sqrt(max_size / (width * height)), and its pixel area is at most
\* max_size.
C25_ResizeTargetUniformScale ==
    [][lastOp'.name = "resize" =>
          LET rec == RecordAt(image_registry, lastOp'.args[1])
              max_size == lastOp'.args[2]
          IN rec.image_obj # None =>
                LET size == rec.image_obj[1]
                    target == ResizeTarget(size, max_size)
                IN /\ target = UniformScaleTarget(size, max_size)
                   /\ target.w * target.h <= max_size]_vars

----------------------------------------------------------------------------
(* The built-in sources accept disjoint sets of paths *)

\* the built-in sources registered under one name each, in every order
BuiltinTables ==
    { t \in [1..3 -> { [protocol |-> src, source |-> src] : src \in BuiltinSources }] :
         \A i \in 1..3, j \in 1..3 : t[i] = t[j] => i = j }

\* C26: for the path a can_handle was asked about, at most one of
\* LocalFileSource, HttpSource and S3Source accepts it; LocalFileSource
\* accepts it exactly when it starts with none of http://, https://, s3://,
\* HttpSource exactly when it starts with http:// or https://; and the
\* source resolved for it is the same in whatever order the three are
\* registered.
C26_BuiltinSourcesExclusive ==
    lastOp.name = "can_handle" =>
        LET path == lastOp.args[2]
            remote == { pre \in {"http://", "https://", "s3://"} : StartsWith(path, pre) }
        IN /\ ret.val = <<can_handle(lastOp.args[1], path)>>
           /\ Cardinality({ src \in BuiltinSources : can_handle(src, path) }) <= 1
           /\ can_handle("LocalFileSource", path) <=> remote = {}
           /\ can_handle("HttpSource", path) <=> remote \cap {"http://", "https://"} # {}
           /\ \A t1 \in BuiltinTables, t2 \in BuiltinTables :
                 SourceForPath(t1, path) = SourceForPath(t2, path)

\* LocalFileSource asked about an s3:// path, which it rejects
C26_Witness ==
    /\ lastOp.name = "can_handle"
    /\ lastOp.args[1] = "LocalFileSource"
    /\ StartsWith(lastOp.args[2], "s3://")
    /\ ret.val = <<FALSE>>

----------------------------------------------------------------------------
(* Storing an encoding: a registry of two records, two providers *)

RemotePath == <<"http://", "h/b.png">>

\* the largest image within the bounds
LargestImage == Bytes(MaxW, MaxH, MaxBytes)

\* the two providers encode to base64 with different budgets
StoreImageConfig ==
    [name \in AllProviderNames |->
        ImageConfig(TRUE, IF name = "openai" THEN 1 ELSE MaxBudget, TRUE)]

InitStore ==
    /\ messages = << >>
    /\ prompts = << >>
    /\ phases = << >>
    /\ image_registry = << NewImageData(LocalPath, Some(LargestImage)).rec,
                            NewImageData(RemotePath, None).rec >>
    /\ configs = << >>
    /\ providers = << >>
    /\ image_config = StoreImageConfig
    /\ lastOp = Op("__init__", << >>)
    /\ ret = NoneReturned
    /\ calls = << >>
    /\ tiers = << >>

NextStore ==
    \/ \E i \in 1..Len(image_registry), name \in AllProviderNames,
          rs \in ByteLens, rz \in ByteLens : ProcessImage(i, name, rs, rz)
    \/ \E i \in 1..Len(image_registry), name \in AllProviderNames, max_size \in Budgets,
          rs \in ByteLens, rz \in ByteLens : ResizeAndEncode(i, max_size, name, rs, rz)
    \/ \E image_path \in Paths, name \in AllProviderNames :
          AddProviderEncodedImage(image_path, name, OtherString)

SpecStore == InitStore /\ [][NextStore]_vars

\* C28: a step that stores an encoding for provider p on the record of
\* path q leaves the registry with the same records in the same places,
\* leaves every entry of another provider on that record and every entry of
\* every other record as it was, and no step removes an entry from a record.
C28_StoreOverwritesOnlyOwnEntry ==
    [][/\ Len(image_registry') = Len(image_registry)
       /\ \A i \in 1..Len(image_registry) :
             LET old == image_registry[i].provider_encoded_images
                 new == image_registry'[i].provider_encoded_images
             IN /\ image_registry'[i].image_path = image_registry[i].image_path
                /\ DOMAIN old \subseteq DOMAIN new
                /\ lastOp'.name \in StoringOps =>
                      /\ image_registry[i].image_path # lastOp'.args[1] => new = old
                      /\ \A p \in DOMAIN old : p # lastOp'.args[2] => new[p] = old[p]]_vars

\* an adaptation has overwritten the entry of its provider on a record while
\* the other provider holds a different string there and the other record
\* holds entries too
C28_Witness ==
    /\ IsAdaptOp
    /\ ret.exc = NoExc
    /\ tiers # << >>
    /\ \E p \in AllProviderNames \ {AdaptProvider} :
          /\ HasEncoded(LastRec, p)
          /\ HasEncoded(LastRec, AdaptProvider)
          /\ LastRec.provider_encoded_images[p] = OtherString
          /\ LastRec.provider_encoded_images[AdaptProvider] # OtherString
    /\ \E i \in 1..Len(image_registry) :
          /\ image_registry[i].image_path # lastOp.args[1]
          /\ DOMAIN image_registry[i].provider_encoded_images = AllProviderNames

----------------------------------------------------------------------------
(* No retry inside a batch, retry across batches *)

\* the number of calls of the log made for path q
CallsFor(log, q) == Cardinality({ k \in 1..Len(log) : log[k].path = q })

\* C29: a download_image_data that was due calls the downloader exactly
\* once for each path that was pending, whether its fetch fails or not, and
\* a path whose fetch failed is still registered without raw bytes
\* afterwards, so that it is pending for the next call.
C29_OncePerPendingPath ==
    [][(/\ IsDownload(lastOp')
        /\ Len(image_registry) > 0
        /\ should_download_images(providers')) =>
          /\ \A q \in PendingPaths(image_registry) : CallsFor(calls', q) = 1
          /\ \A k \in 1..Len(calls') :
                calls'[k].exc # NoExc => calls'[k].path \in PendingPaths(image_registry')]_vars

----------------------------------------------------------------------------
(* The stored string against the bytes of the record *)

\* C30: when an adaptation of a record for provider p has ended normally
\* after running a tier on the record's bytes, the string stored under p is
\* the base64 encoding of the raw bytes the record holds now, whichever
\* tier was the last.
C30_StoredIsEncodingOfCurrentBytes ==
    (/\ IsAdaptOp
     /\ ret.exc = NoExc
     /\ tiers # << >>
     /\ LastRec.binary_data # None) =>
        /\ HasEncoded(LastRec, AdaptProvider)
        /\ LastRec.provider_encoded_images[AdaptProvider]
              = encode_image(LastRec.binary_data[1])

\* an adaptation that ended in a later tier with a string of another length
\* than the direct encoding, that string being the one stored
C30_Witness ==
    /\ IsAdaptOp
    /\ ret.exc = NoExc
    /\ Len(tiers) >= 2
    /\ tiers[Len(tiers)].len # tiers[1].len
    /\ HasEncoded(LastRec, AdaptProvider)
    /\ LastRec.provider_encoded_images[AdaptProvider].len = tiers[Len(tiers)].len

====
